---- MODULE Spec2Model ----
(***************************************************************************)
(* FinTrack-AI: the stock performance calculator and the brokerage CSV     *)
(* parsers (services/stock.ts), and the local-storage accessors the        *)
(* calculator reads (services/storage.ts).                                 *)
(*                                                                         *)
(* JavaScript numbers are modelled as exact decimals m * 10^x together     *)
(* with the three IEEE specials NaN, +Infinity and -Infinity; strings are  *)
(* sequences of one-character strings.  Binary rounding of doubles is not  *)
(* modelled: every finite value of the model is an exact decimal.          *)
(***************************************************************************)
EXTENDS Integers, Sequences, FiniteSets

VARIABLES localStorage, stock, transactions, result, recording, prev, configured,
          csvText, parsed, prevParsed,
          lastImport,
          today, timeZone, recurring, recurringExecuted, ledger, toast, effectRan,
          utcDate, assets, stockHistory,
          uuids, lastInventory,
          apiKey, apiKeyStatus, pending,
          enrichStatus, renderedStatus, runs, started, userChanges, lastRun

calcVars == <<localStorage, stock, transactions, result, recording, prev, configured>>

calcVarsButStore == <<stock, transactions, result, recording, prev, configured>>

csvVars == <<csvText, parsed, prevParsed>>

\* the variables of the application state, declared with their models below
autoVars == <<today, timeZone, recurring, recurringExecuted, ledger, toast, effectRan>>

snapshotVars == <<utcDate, assets, stockHistory>>

inventoryVars == <<uuids, lastInventory>>

apiKeyVars == <<apiKey, apiKeyStatus, pending>>

enrichVars == <<enrichStatus, renderedStatus, runs, started, userChanges, lastRun>>

appVars == <<lastImport, autoVars, snapshotVars, inventoryVars, apiKeyVars, enrichVars>>

vars == <<calcVars, csvVars, appVars>>

\* what the actions of a part of the application leave alone
restOfRefresh ==
    <<calcVarsButStore, csvVars, today, timeZone, toast, effectRan, utcDate,
      inventoryVars, enrichVars>>

restOfAuto ==
    <<calcVarsButStore, csvVars, lastImport, snapshotVars, inventoryVars, apiKeyVars,
      enrichVars>>

restOfSnapshot ==
    <<calcVarsButStore, csvVars, lastImport, autoVars, inventoryVars, apiKeyVars,
      enrichVars>>

restOfInventory ==
    <<calcVarsButStore, csvVars, lastImport, utcDate, stockHistory, today, timeZone,
      recurring, recurringExecuted, ledger, effectRan, apiKeyVars, enrichVars>>

restOfEnrich ==
    <<calcVarsButStore, csvVars, lastImport, utcDate, today, timeZone, recurring,
      recurringExecuted, ledger, effectRan, inventoryVars, apiKeyVars>>

(***************************************************************************)
(* JavaScript numbers                                                      *)
(***************************************************************************)
RECURSIVE Pow10(_)
Pow10(n) == IF n <= 0 THEN 1 ELSE 10 * Pow10(n - 1)

Abs(n) == IF n < 0 THEN -n ELSE n

Sign(n) == IF n < 0 THEN -1 ELSE IF n = 0 THEN 0 ELSE 1

Min2(a, b) == IF a <= b THEN a ELSE b

\* normal form of m * 10^x: zero is <<0, 0>>, otherwise 10 does not divide m
RECURSIVE Norm(_, _)
Norm(m, x) ==
    IF m = 0 THEN [c |-> "fin", m |-> 0, x |-> 0]
    ELSE IF m % 10 = 0 THEN Norm(m \div 10, x + 1)
    ELSE [c |-> "fin", m |-> m, x |-> x]

NaN == [c |-> "nan", m |-> 0, x |-> 0]

PosInf == [c |-> "inf", m |-> 1, x |-> 0]

NegInf == [c |-> "inf", m |-> -1, x |-> 0]

NumOf(n) == Norm(n, 0)

IsNaN(a) == a.c = "nan"

IsFinite(a) == a.c = "fin"

SignOf(a) == Sign(a.m)

InfOfSign(s) == IF s < 0 THEN NegInf ELSE PosInf

\* the integer mantissa of a at exponent x (x <= a.x)
Scaled(a, x) == a.m * Pow10(a.x - x)

\* a * b
Mul(a, b) ==
    IF IsNaN(a) \/ IsNaN(b) THEN NaN
    ELSE IF IsFinite(a) /\ IsFinite(b) THEN Norm(a.m * b.m, a.x + b.x)
    ELSE IF SignOf(a) = 0 \/ SignOf(b) = 0 THEN NaN
    ELSE InfOfSign(SignOf(a) * SignOf(b))

Neg(a) == [a EXCEPT !.m = -a.m]

\* a + b
Add(a, b) ==
    IF IsNaN(a) \/ IsNaN(b) THEN NaN
    ELSE IF IsFinite(a) /\ IsFinite(b)
         THEN LET x == Min2(a.x, b.x) IN Norm(Scaled(a, x) + Scaled(b, x), x)
    ELSE IF ~IsFinite(a) /\ ~IsFinite(b)
         THEN IF SignOf(a) = SignOf(b) THEN a ELSE NaN
    ELSE IF IsFinite(a) THEN b ELSE a

\* a - b
Sub(a, b) == Add(a, Neg(b))

\* a < b
Lt(a, b) ==
    IF IsNaN(a) \/ IsNaN(b) THEN FALSE
    ELSE IF IsFinite(a) /\ IsFinite(b)
         THEN LET x == Min2(a.x, b.x) IN Scaled(a, x) < Scaled(b, x)
    ELSE IF ~IsFinite(a) THEN SignOf(a) < 0 /\ b # NegInf
    ELSE SignOf(b) > 0

\* a > b
Gt(a, b) == Lt(b, a)

\* Math.floor(a)
Floor(a) ==
    IF ~IsFinite(a) THEN a
    ELSE IF a.x >= 0 THEN a
    ELSE Norm(a.m \div Pow10(-a.x), 0)

\* (a / b) * 100, kept as the exact fraction n / d (times 100)
Ratio(n, d) == [c |-> "fin", n |-> n, d |-> d]

RatioNaN == [c |-> "nan", n |-> 0, d |-> 1]

RatioInf(s) == [c |-> "inf", n |-> s, d |-> 1]

DivTimes100(a, b) ==
    IF IsNaN(a) \/ IsNaN(b) THEN RatioNaN
    ELSE IF IsFinite(a) /\ IsFinite(b)
         THEN IF b.m = 0
              THEN IF a.m = 0 THEN RatioNaN ELSE RatioInf(SignOf(a))
              ELSE LET x == Min2(a.x, b.x)
                   IN Ratio(Sign(b.m) * Scaled(a, x) * 100, Abs(Scaled(b, x)))
    ELSE IF ~IsFinite(a) /\ ~IsFinite(b) THEN RatioNaN
    ELSE IF IsFinite(a) THEN Ratio(0, 1)
    ELSE RatioInf(SignOf(a) * (IF SignOf(b) < 0 THEN -1 ELSE 1))

(***************************************************************************)
(* JavaScript strings and values                                           *)
(***************************************************************************)
Digits == <<"0", "1", "2", "3", "4", "5", "6", "7", "8", "9">>

IsDigit(ch) == \E i \in 1..10 : Digits[i] = ch

DigitVal(ch) == (CHOOSE i \in 1..10 : Digits[i] = ch) - 1

\* String.prototype.includes
Includes(text, pat) ==
    \E i \in 0..(Len(text) - Len(pat)) : SubSeq(text, i + 1, i + Len(pat)) = pat

\* String.prototype.startsWith
StartsWith(text, pat) ==
    Len(pat) <= Len(text) /\ SubSeq(text, 1, Len(pat)) = pat

StartsWithAt(text, i, pat) ==
    i + Len(pat) - 1 <= Len(text) /\ SubSeq(text, i, i + Len(pat) - 1) = pat

RECURSIVE SkipSpaces(_, _)
SkipSpaces(s, i) ==
    IF i <= Len(s) /\ s[i] = " " THEN SkipSpaces(s, i + 1) ELSE i

\* the index after the run of digits of s that starts at i
RECURSIVE DigitRun(_, _)
DigitRun(s, i) ==
    IF i <= Len(s) /\ IsDigit(s[i]) THEN DigitRun(s, i + 1) ELSE i

\* the value of the digits s[i] .. s[j-1]
RECURSIVE DigitsValue(_, _, _)
DigitsValue(s, i, j) ==
    IF i >= j THEN 0 ELSE DigitsValue(s, i, j - 1) * 10 + DigitVal(s[j - 1])

InfinityStr == <<"I", "n", "f", "i", "n", "i", "t", "y">>

NaNStr == <<"N", "a", "N">>

\* the longest numeric prefix of s (StrDecimalLiteral without exponent): the
\* number it denotes and the index after it.  s[i0] is the first character
\* that is not a space, s[i1] the first after the sign, s[i2] the first after
\* the integer digits and s[i3] the first after the fraction digits.
ScanEnd(s, i0, neg, i1, i2, hasDot, i3) ==
    IF StartsWithAt(s, i1, InfinityStr)
    THEN [n |-> InfOfSign(IF neg THEN -1 ELSE 1), end |-> i1 + Len(InfinityStr)]
    ELSE IF (i2 - i1) + (IF hasDot THEN i3 - (i2 + 1) ELSE 0) = 0
         THEN [n |-> NaN, end |-> i0]
    ELSE IF hasDot
         THEN [n |-> Norm((IF neg THEN -1 ELSE 1)
                            * (DigitsValue(s, i1, i2) * Pow10(i3 - (i2 + 1))
                                 + DigitsValue(s, i2 + 1, i3)),
                          -(i3 - (i2 + 1))),
               end |-> i3]
    ELSE [n |-> Norm((IF neg THEN -1 ELSE 1) * DigitsValue(s, i1, i2), 0),
          end |-> i3]

ScanFraction(s, i0, neg, i1, i2, hasDot) ==
    ScanEnd(s, i0, neg, i1, i2, hasDot, IF hasDot THEN DigitRun(s, i2 + 1) ELSE i2)

ScanInteger(s, i0, neg, i1, i2) ==
    ScanFraction(s, i0, neg, i1, i2, i2 <= Len(s) /\ s[i2] = ".")

ScanSign(s, i0, neg, i1) == ScanInteger(s, i0, neg, i1, DigitRun(s, i1))

ScanFrom(s, i0) ==
    ScanSign(s, i0, i0 <= Len(s) /\ s[i0] = "-",
             IF i0 <= Len(s) /\ s[i0] \in {"-", "+"} THEN i0 + 1 ELSE i0)

ScanNumber(s) == ScanFrom(s, SkipSpaces(s, 1))

\* parseFloat(s): the numeric prefix, trailing characters ignored
parseFloat(s) == ScanNumber(s).n

\* Number(s) of a string: the whole trimmed string must be numeric, "" is 0
StringToNumber(s) ==
    LET r == ScanNumber(s)
    IN  IF SkipSpaces(s, 1) > Len(s) THEN NumOf(0)
        ELSE IF SkipSpaces(s, r.end) > Len(s) THEN r.n
        ELSE NaN

RECURSIVE NatToString(_)
NatToString(n) ==
    IF n < 10 THEN <<Digits[n + 1]>>
    ELSE NatToString(n \div 10) \o <<Digits[(n % 10) + 1]>>

\* the k digits of f, zero padded on the left
RECURSIVE FracToString(_, _)
FracToString(f, k) ==
    IF k = 0 THEN <<>>
    ELSE FracToString(f \div 10, k - 1) \o <<Digits[(f % 10) + 1]>>

\* Number.prototype.toString (decimal notation)
NumberToString(a) ==
    IF IsNaN(a) THEN NaNStr
    ELSE IF ~IsFinite(a)
         THEN (IF SignOf(a) < 0 THEN <<"-">> ELSE <<>>) \o InfinityStr
    ELSE LET sgn == IF a.m < 0 THEN <<"-">> ELSE <<>>
             mag == Abs(a.m)
         IN  IF a.x >= 0 THEN sgn \o NatToString(mag * Pow10(a.x))
             ELSE sgn \o NatToString(mag \div Pow10(-a.x)) \o <<".">>
                      \o FracToString(mag % Pow10(-a.x), -a.x)

\* a JavaScript value: undefined, a number, a string or a boolean
JsUndefined == [k |-> "undefined", n |-> NaN, s |-> <<>>, b |-> FALSE]

JsNum(a) == [k |-> "number", n |-> a, s |-> <<>>, b |-> FALSE]

JsStr(str) == [k |-> "string", n |-> NaN, s |-> str, b |-> FALSE]

JsBool(bv) == [k |-> "boolean", n |-> NaN, s |-> <<>>, b |-> bv]

\* an array, and an object that is not an array: s holds the elements
JsArray(items) == [k |-> "array", n |-> NaN, s |-> items, b |-> FALSE]

JsObject(entries) == [k |-> "object", n |-> NaN, s |-> entries, b |-> FALSE]

\* Number(v)
ToNumber(v) ==
    CASE v.k = "undefined" -> NaN
      [] v.k = "number" -> v.n
      [] v.k = "string" -> StringToNumber(v.s)
      [] v.k = "boolean" -> IF v.b THEN NumOf(1) ELSE NumOf(0)

\* ToBoolean(v)
Truthy(v) ==
    CASE v.k = "undefined" -> FALSE
      [] v.k = "number" -> ~IsNaN(v.n) /\ v.n # NumOf(0)
      [] v.k = "string" -> Len(v.s) > 0
      [] v.k = "boolean" -> v.b
      [] v.k \in {"array", "object"} -> TRUE

\* v.toString() of a defined value
JsToString(v) ==
    CASE v.k = "number" -> NumberToString(v.n)
      [] v.k = "string" -> v.s
      [] v.k = "boolean" -> IF v.b THEN <<"t", "r", "u", "e">>
                            ELSE <<"f", "a", "l", "s", "e">>

\* Number(v) || 0
NumberOrZero(v) ==
    LET n == ToNumber(v)
    IN  IF IsNaN(n) \/ n = NumOf(0) THEN NumOf(0) ELSE n

(***************************************************************************)
(* services/storage.ts                                                     *)
(***************************************************************************)
ASSETS == "ft_assets"

TRANSACTIONS == "ft_transactions"

RECURRING == "ft_recurring"

RECURRING_EXECUTED == "ft_recurring_executed"

HISTORY == "ft_portfolio_history"

BUDGETS == "ft_budgets"

STOCK_HISTORY == "ft_stock_history"

STOCK_TRANSACTIONS == "ft_stock_transactions"

FEE_DISCOUNT == "ft_stock_fee_discount"

API_KEY == "ft_api_key"

GOOGLE_CLIENT_ID == "ft_google_client_id"

StorageKeys ==
    {ASSETS, TRANSACTIONS, RECURRING, RECURRING_EXECUTED, HISTORY, BUDGETS,
     STOCK_HISTORY, STOCK_TRANSACTIONS, FEE_DISCOUNT, API_KEY, GOOGLE_CLIENT_ID}

\* localStorage.getItem gives null for a key that is not set
Null == [set |-> FALSE, v |-> <<>>]

Item(str) == [set |-> TRUE, v |-> str]

DefaultFeeDiscount == Norm(28, -2)

getFeeDiscount ==
    LET data == localStorage[FEE_DISCOUNT]
    IN  IF data.set /\ Len(data.v) > 0 THEN parseFloat(data.v)
        ELSE DefaultFeeDiscount

\* the store after saveFeeDiscount(discount)
saveFeeDiscount(store, discount) ==
    [store EXCEPT ![FEE_DISCOUNT] = Item(JsToString(discount))]

\* JSON.stringify of a collection, as the one-token text that denotes it;
\* JSON.parse of that text gives the collection back
JSONstringify(value) == <<value>>

\* the keys importData hands to a save function that stringifies the value
CollectionKeys ==
    {TRANSACTIONS, RECURRING, RECURRING_EXECUTED, HISTORY, BUDGETS, STOCK_HISTORY}

\* the keys importData hands to localStorage.setItem as they are
StringKeys == {API_KEY, GOOGLE_CLIENT_ID}

\* asset.transactions of every asset that carries an array of them, in order
RECURSIVE assetTransactions(_)
assetTransactions(list) ==
    IF list = <<>> THEN <<>>
    ELSE (IF Head(list).transactions.k = "array"
          THEN Head(list).transactions.s ELSE <<>>)
         \o assetTransactions(Tail(list))

\* the list with the transactions array deleted from each
migratedAssets(list) ==
    [i \in DOMAIN list |->
        IF list[i].transactions.k = "array"
        THEN [list[i] EXCEPT !.transactions = JsUndefined]
        ELSE list[i]]

\* allStockTxs of importData: the new format first, then the old one
allStockTxs(data) ==
    (IF Truthy(data[STOCK_TRANSACTIONS]) THEN data[STOCK_TRANSACTIONS].s ELSE <<>>)
    \o (IF Truthy(data[ASSETS]) THEN assetTransactions(data[ASSETS].s) ELSE <<>>)

\* Array.from(new Map(txs.map(tx => [tx.id, tx])).values()): an id keeps the
\* place of its first transaction and the value of its last
RECURSIVE uniqueTxs(_)
uniqueTxs(txs) ==
    IF txs = <<>> THEN <<>>
    ELSE LET id == Head(txs).id
             same == SelectSeq(txs, LAMBDA tx : tx.id = id)
         IN  <<same[Len(same)]>>
             \o uniqueTxs(SelectSeq(Tail(txs), LAMBDA tx : tx.id # id))

\* what importData leaves under a key, for a backup that parses
importedItem(store, data, txs, key) ==
    CASE key = ASSETS ->
            IF Truthy(data[ASSETS])
            THEN Item(JSONstringify(JsArray(migratedAssets(data[ASSETS].s))))
            ELSE store[ASSETS]
      [] key = STOCK_TRANSACTIONS ->
            IF Len(txs) > 0 THEN Item(JSONstringify(JsArray(uniqueTxs(txs))))
            ELSE store[STOCK_TRANSACTIONS]
      [] key \in CollectionKeys ->
            IF Truthy(data[key]) THEN Item(JSONstringify(data[key])) ELSE store[key]
      [] key \in StringKeys ->
            IF Truthy(data[key]) THEN Item(JsToString(data[key])) ELSE store[key]
      [] key = FEE_DISCOUNT ->
            IF Truthy(data[FEE_DISCOUNT])
            THEN saveFeeDiscount(store, data[FEE_DISCOUNT])[FEE_DISCOUNT]
            ELSE store[FEE_DISCOUNT]

\* the store after importData(jsonData), for a backup that parses: data is
\* the parsed object, a function from the modelled keys to JavaScript values
\* (undefined for a key the backup does not carry)
importData(store, data) ==
    [key \in StorageKeys |-> importedItem(store, data, allStockTxs(data), key)]

\* the store after clearAllData()
clearAllData(store) == [key \in StorageKeys |-> Null]

(***************************************************************************)
(* services/stock.ts: calculateStockPerformance                            *)
(***************************************************************************)
feeRate == Norm(1425, -6)

minFee == NumOf(20)

EtfTaxRate == Norm(1, -3)

StockTaxRate == Norm(3, -3)

Zero == NumOf(0)

ZeroRatio == Ratio(0, 1)

\* t.item.includes(symbol) || t.note?.includes(symbol)
MentionsSymbol(t, symbol) ==
    \/ Includes(t.item, symbol)
    \/ t.note.k = "string" /\ Includes(t.note.s, symbol)

\* .reduce((sum, t) => sum + t.amount, 0)
RECURSIVE SumAmounts(_)
SumAmounts(txs) ==
    IF txs = <<>> THEN Zero
    ELSE Add(SumAmounts(SubSeq(txs, 1, Len(txs) - 1)), txs[Len(txs)].amount)

IsMatchedDividend_AnyType(t, symbol) == MentionsSymbol(t, symbol)

\* the filter predicate of line 31
IsMatchedDividend(t, symbol) == t.type = "DIVIDEND" /\ MentionsSymbol(t, symbol)

sumDividends_Accumulating(s, txs) ==
    Add(result.out.totalDividends,
        IF Truthy(s.symbol) /\ Len(txs) > 0
        THEN SumAmounts(SelectSeq(txs, LAMBDA t : IsMatchedDividend(t, s.symbol.s)))
        ELSE Zero)

\* let totalDividends = 0; if (stock.symbol && transactions.length > 0) ...
sumDividends(s, txs) ==
    IF Truthy(s.symbol) /\ Len(txs) > 0
    THEN SumAmounts(SelectSeq(txs, LAMBDA t : IsMatchedDividend(t, s.symbol.s)))
    ELSE Zero

isZeroPosition_SharesOnly(shares, avgCost) == shares = Zero

\* shares === 0 || avgCost === 0
isZeroPosition(shares, avgCost) == shares = Zero \/ avgCost = Zero

isActuallyEtf_FlagOrPrefix(s) ==
    \/ s.isEtf.k = "boolean" /\ s.isEtf.b
    \/ s.symbol.k = "string" /\ StartsWith(s.symbol.s, <<"0", "0">>)

\* typeof stock.isEtf === 'boolean' ? stock.isEtf
\*                                  : (stock.symbol?.startsWith('00') || false)
isActuallyEtf(s) ==
    IF s.isEtf.k = "boolean" THEN s.isEtf.b
    ELSE s.symbol.k = "string" /\ StartsWith(s.symbol.s, <<"0", "0">>)

taxRateOf(s) == IF isActuallyEtf(s) THEN EtfTaxRate ELSE StockTaxRate

calculateFee_NoDiscount(price, shares, feeDiscount) ==
    LET fee == Floor(Mul(Mul(price, shares), feeRate))
    IN  IF Lt(fee, minFee) THEN minFee ELSE fee

calculateFee(price, shares, feeDiscount) ==
    LET fee == Floor(Mul(Mul(Mul(price, shares), feeRate), feeDiscount))
    IN  IF Lt(fee, minFee) THEN minFee ELSE fee

roiOf_Unguarded(netProfit, totalCost) == DivTimes100(netProfit, totalCost)

\* totalCost > 0 ? (netProfit / totalCost) * 100 : 0
roiOf(netProfit, totalCost) ==
    IF Gt(totalCost, Zero) THEN DivTimes100(netProfit, totalCost) ELSE ZeroRatio

calculateStockPerformance(s, txs) ==
    LET shares == NumberOrZero(s.shares)
        avgCost == NumberOrZero(s.avgCost)
        currentPrice == NumberOrZero(s.currentPrice)
        totalDividends == sumDividends(s, txs)
    IN  IF isZeroPosition(shares, avgCost)
        THEN [totalCost |-> Zero, marketValue |-> Zero, estimatedReturn |-> Zero,
              netProfit |-> Zero, roi |-> ZeroRatio, buyFee |-> Zero,
              sellFee |-> Zero, tax |-> Zero, totalDividends |-> totalDividends]
        ELSE LET feeDiscount == getFeeDiscount
                 buyValue == Mul(avgCost, shares)
                 buyFee == calculateFee(avgCost, shares, feeDiscount)
                 totalCost == Add(buyValue, buyFee)
                 marketValue == Mul(currentPrice, shares)
                 sellFee == calculateFee(currentPrice, shares, feeDiscount)
                 tax == Floor(Mul(marketValue, taxRateOf(s)))
                 estimatedReturn == Sub(Sub(marketValue, sellFee), tax)
                 netProfit == Sub(estimatedReturn, totalCost)
                 roi == roiOf(netProfit, totalCost)
             IN  [totalCost |-> totalCost, marketValue |-> marketValue,
                  estimatedReturn |-> estimatedReturn, netProfit |-> netProfit,
                  roi |-> roi, buyFee |-> buyFee, sellFee |-> sellFee,
                  tax |-> tax, totalDividends |-> totalDividends]

\* whether a call with this position gets as far as getFeeDiscount() (line 40)
ReadsFeeDiscount(s) ==
    ~isZeroPosition(NumberOrZero(s.shares), NumberOrZero(s.avgCost))

(***************************************************************************)
(* CSV ingestion (services/stock.ts): string operations                    *)
(*                                                                         *)
(* A character outside ASCII is written as the one-character string that   *)
(* names its code point, "U+6210" for the character U+6210.                *)
(***************************************************************************)
Quote == "\""

Comma == ","

\* the white space and line terminators String.prototype.trim removes
WhiteSpace == {" ", "\t", "\r", "\n", "U+3000"}

\* the k-th smallest element of the set P of positions
NthPosition(P, k) == CHOOSE p \in P : Cardinality({q \in P : q < p}) = k - 1

\* the pieces of s between the separator positions P
SplitAt(s, P) ==
    [k \in 1..(Cardinality(P) + 1) |->
        SubSeq(s,
               IF k = 1 THEN 1 ELSE NthPosition(P, k - 1) + 1,
               IF k = Cardinality(P) + 1 THEN Len(s) ELSE NthPosition(P, k) - 1)]

\* String.prototype.split with a one-character separator
Split(s, sep) == SplitAt(s, {p \in 1..Len(s) : s[p] = sep})

QuotesAfter(s, p) == Cardinality({q \in (p + 1)..Len(s) : s[q] = Quote})

\* line.split(/,(?=(?:(?:[^"]*"){2})*[^"]*$)/): a comma separates when an
\* even number of quote characters follows it
SplitUnquoted(s) ==
    SplitAt(s, {p \in 1..Len(s) : s[p] = Comma /\ QuotesAfter(s, p) % 2 = 0})

RECURSIVE TrimStart(_)
TrimStart(s) ==
    IF s # <<>> /\ Head(s) \in WhiteSpace THEN TrimStart(Tail(s)) ELSE s

RECURSIVE TrimEnd(_)
TrimEnd(s) ==
    IF s # <<>> /\ s[Len(s)] \in WhiteSpace
    THEN TrimEnd(SubSeq(s, 1, Len(s) - 1)) ELSE s

\* String.prototype.trim
Trim(s) == TrimEnd(TrimStart(s))

\* s.replace(/ch/g, '')
Remove(s, ch) == SelectSeq(s, LAMBDA c : c # ch)

\* s.replace(/"/g, '')
StripQuotes(s) == Remove(s, Quote)

\* s.replace(/ch/g, by)
ReplaceChar(s, ch, by) == [i \in 1..Len(s) |-> IF s[i] = ch THEN by ELSE s[i]]

\* Array.prototype.join
RECURSIVE Join(_, _)
Join(strs, sep) ==
    IF strs = <<>> THEN <<>>
    ELSE IF Len(strs) = 1 THEN strs[1]
    ELSE strs[1] \o sep \o Join(Tail(strs), sep)

\* String.prototype.indexOf of a character, -1 when it does not occur
IndexOf(s, ch) ==
    IF \E i \in 1..Len(s) : s[i] = ch
    THEN (CHOOSE i \in 1..Len(s) : s[i] = ch /\ \A j \in 1..(i - 1) : s[j] # ch) - 1
    ELSE -1

\* array[index] of JavaScript: undefined outside the array
ElementAt(arr, index) ==
    IF index + 1 \in 1..Len(arr) THEN JsStr(arr[index + 1]) ELSE JsUndefined

\* the non-empty trimmed lines of a text
TrimAll(strs) == [i \in 1..Len(strs) |-> Trim(strs[i])]

Lines(text) == SelectSeq(TrimAll(Split(text, "\n")), LAMBDA line : line # <<>>)

\* lines[0].split(',').map(h => h.trim().replace(/"/g, ''))
CleanHeaders(strs) == [i \in 1..Len(strs) |-> StripQuotes(Trim(strs[i]))]

Headers(line) == CleanHeaders(Split(line, Comma))

\* headers.findIndex(header => header.includes(keyword))
findIndex(headers, keyword) ==
    IF \E i \in 1..Len(headers) : Includes(headers[i], keyword)
    THEN (CHOOSE i \in 1..Len(headers) :
            /\ Includes(headers[i], keyword)
            /\ \A j \in 1..(i - 1) : ~Includes(headers[j], keyword)) - 1
    ELSE -1

\* the first column that contains any of the keywords, whichever keyword
findColumnIndex_ColumnMajor(headers, keywords) ==
    IF \E i \in 1..Len(headers), k \in 1..Len(keywords) :
           Includes(headers[i], keywords[k])
    THEN (CHOOSE i \in 1..Len(headers) :
            /\ \E k \in 1..Len(keywords) : Includes(headers[i], keywords[k])
            /\ \A j \in 1..(i - 1), k \in 1..Len(keywords) :
                   ~Includes(headers[j], keywords[k])) - 1
    ELSE -1

\* the keywords are tried in order; the first keyword that some header
\* contains decides, and gives the first header that contains it
RECURSIVE findColumnIndex(_, _)
findColumnIndex(headers, keywords) ==
    IF keywords = <<>> THEN -1
    ELSE IF findIndex(headers, Head(keywords)) # -1
         THEN findIndex(headers, Head(keywords))
    ELSE findColumnIndex(headers, Tail(keywords))

\* the commas stay in the text that is parsed
cleanNumber_KeepCommas(str) ==
    IF ~Truthy(str) THEN Zero
    ELSE IF IsNaN(parseFloat(StripQuotes(str.s))) THEN Zero
    ELSE parseFloat(StripQuotes(str.s))

\* cleanNumber: 0 for a missing or empty field and for a field that does not
\* start with a number
cleanNumber(str) ==
    IF ~Truthy(str) THEN Zero
    ELSE IF IsNaN(parseFloat(Remove(StripQuotes(str.s), Comma))) THEN Zero
    ELSE parseFloat(Remove(StripQuotes(str.s), Comma))

\* parts[index]?.trim().replace(/"/g, '')
cleanText(str) ==
    IF str.k = "undefined" THEN JsUndefined ELSE JsStr(StripQuotes(Trim(str.s)))

AllDigits(s, i, j) == j <= Len(s) /\ \A k \in i..j : IsDigit(s[k])

SlashAt(s, i) == IF i <= Len(s) /\ s[i] = "/" THEN 1 ELSE 0

\* dateStr.match(/^\d{4}\/?\d{2}\/?\d{2}/)
MatchesDate(s) ==
    /\ AllDigits(s, 1, 4)
    /\ AllDigits(s, 5 + SlashAt(s, 5), 6 + SlashAt(s, 5))
    /\ AllDigits(s, 7 + SlashAt(s, 5) + SlashAt(s, 7 + SlashAt(s, 5)),
                 8 + SlashAt(s, 5) + SlashAt(s, 7 + SlashAt(s, 5)))

(***************************************************************************)
(* CSV ingestion: parseStockTransactionCSV                                 *)
(***************************************************************************)
\* 成交日期
KwDate == <<"U+6210", "U+4EA4", "U+65E5", "U+671F">>

\* 股票代號
KwSymbol == <<"U+80A1", "U+7968", "U+4EE3", "U+865F">>

\* 買賣別
KwSide == <<"U+8CB7", "U+8CE3", "U+5225">>

\* 買賣
KwSideShort == <<"U+8CB7", "U+8CE3">>

\* 成交數量
KwShares == <<"U+6210", "U+4EA4", "U+6578", "U+91CF">>

\* 股數
KwSharesShort == <<"U+80A1", "U+6578">>

\* 成交股數
KwSharesTraded == <<"U+6210", "U+4EA4", "U+80A1", "U+6578">>

\* 成交價
KwPrice == <<"U+6210", "U+4EA4", "U+50F9">>

\* 成交單價
KwUnitPrice == <<"U+6210", "U+4EA4", "U+55AE", "U+50F9">>

\* 成交價格
KwPriceFull == <<"U+6210", "U+4EA4", "U+50F9", "U+683C">>

\* 應收付帳款
KwAmount == <<"U+61C9", "U+6536", "U+4ED8", "U+5E33", "U+6B3E">>

\* 收付金額
KwAmountPaid == <<"U+6536", "U+4ED8", "U+91D1", "U+984D">>

\* 發生金額
KwAmountIncurred == <<"U+767C", "U+751F", "U+91D1", "U+984D">>

\* 損益
KwRealizedProfit == <<"U+640D", "U+76CA">>

\* 手續費
KwFee == <<"U+624B", "U+7E8C", "U+8CBB">>

\* 交易稅
KwTax == <<"U+4EA4", "U+6613", "U+7A05">>

\* 小計
KwSubtotal == <<"U+5C0F", "U+8A08">>

\* 總計
KwGrandTotal == <<"U+7E3D", "U+8A08">>

\* 買
KwBuy == <<"U+8CB7">>

\* CSV 檔案是空的或缺少標題列 (Header)。
EmptyCsvError ==
    <<"C", "S", "V", " ", "U+6A94", "U+6848", "U+662F", "U+7A7A", "U+7684",
      "U+6216", "U+7F3A", "U+5C11", "U+6A19", "U+984C", "U+5217", " ", "(",
      "H", "e", "a", "d", "e", "r", ")", "U+3002">>

\* CSV 檔案缺少必要的欄位，請檢查是否包含：
MissingColumnsPrefix ==
    <<"C", "S", "V", " ", "U+6A94", "U+6848", "U+7F3A", "U+5C11", "U+5FC5",
      "U+8981", "U+7684", "U+6B04", "U+4F4D", "U+FF0C", "U+8ACB", "U+6AA2",
      "U+67E5", "U+662F", "U+5426", "U+5305", "U+542B", "U+FF1A">>

\* 、
MissingColumnsSeparator == <<"U+3001">>


\* columnMap of parseStockTransactionCSV: the column of each field, -1 when
\* no header contains any of its keywords
columnMapOf(headers) ==
    [date |-> findColumnIndex(headers, <<KwDate>>),
     symbol |-> findColumnIndex(headers, <<KwSymbol>>),
     side |-> findColumnIndex(headers, <<KwSide, KwSideShort>>),
     shares |-> findColumnIndex(headers, <<KwShares, KwSharesShort, KwSharesTraded>>),
     price |-> findColumnIndex(headers, <<KwPrice, KwUnitPrice, KwPriceFull>>),
     amount |-> findColumnIndex(headers, <<KwAmount, KwAmountPaid, KwAmountIncurred>>),
     realizedProfit |-> findColumnIndex(headers, <<KwRealizedProfit>>),
     fee |-> findColumnIndex(headers, <<KwFee>>),
     tax |-> findColumnIndex(headers, <<KwTax>>)]

requiredFields ==
    <<[key |-> "date", name |-> KwDate],
      [key |-> "symbol", name |-> KwSymbol],
      [key |-> "side", name |-> KwSide],
      [key |-> "shares", name |-> KwShares],
      [key |-> "price", name |-> KwPrice],
      [key |-> "amount", name |-> KwAmount]>>

\* reports the first missing field only
missingColumns_FirstOnly(fields, columnMap) ==
    IF SelectSeq(fields, LAMBDA field : columnMap[field.key] = -1) = <<>>
    THEN <<>>
    ELSE <<Head(SelectSeq(fields, LAMBDA field : columnMap[field.key] = -1))>>

\* requiredFields.filter(field => columnMap[field.key] === -1)
missingColumns(fields, columnMap) ==
    SelectSeq(fields, LAMBDA field : columnMap[field.key] = -1)

\* missingColumns.map(field => field.name)
missingNames(missing) == [i \in 1..Len(missing) |-> missing[i].name]

missingColumnsError(missing) ==
    MissingColumnsPrefix \o Join(missingNames(missing), MissingColumnsSeparator)

\* only the text that is exactly the buy character is a purchase
sideOf_Exact(sideText) == IF sideText = KwBuy THEN "BUY" ELSE "SELL"

\* sideText.includes('買') ? 'BUY' : 'SELL'
sideOf(sideText) == IF Includes(sideText, KwBuy) THEN "BUY" ELSE "SELL"

\* only a grand total marks a line to skip
isTotalLine_GrandTotalOnly(line) == Includes(line, KwGrandTotal)

\* line.includes('小計') || line.includes('總計')
isTotalLine(line) == Includes(line, KwSubtotal) \/ Includes(line, KwGrandTotal)

\* columnMap.x !== -1 ? cleanNumber(parts[columnMap.x]) : 0
optionalNumber(parts, index) ==
    IF index # -1 THEN cleanNumber(ElementAt(parts, index)) ELSE Zero

\* the record a row pushes; id (crypto.randomUUID()) is a fresh value that
\* nothing reads and is left out
transactionOf(parts, columnMap, symbol, dateStr, side) ==
    [date |-> ReplaceChar(dateStr, "/", "-"),
     symbol |-> symbol,
     side |-> side,
     tradeType |-> <<>>,
     shares |-> cleanNumber(ElementAt(parts, columnMap.shares)),
     price |-> cleanNumber(ElementAt(parts, columnMap.price)),
     fees |-> Add(optionalNumber(parts, columnMap.fee),
                  optionalNumber(parts, columnMap.tax)),
     realizedProfit |-> JsNum(IF side = "SELL"
                              THEN optionalNumber(parts, columnMap.realizedProfit)
                              ELSE Zero),
     amount |-> cleanNumber(ElementAt(parts, columnMap.amount))]

Skipped == [kind |-> "skipped", pushed |-> <<>>]

Thrown == [kind |-> "thrown", pushed |-> <<>>]

Pushed(record) == [kind |-> "pushed", pushed |-> <<record>>]

\* the body of the try block: continue on an empty symbol or date and on a
\* date that does not match; parts[columnMap.side].trim() throws a TypeError
\* when the row has no such field, and the catch skips the row
transactionFields(parts, columnMap, symbol, dateStr) ==
    IF ~Truthy(symbol) \/ ~Truthy(dateStr) THEN Skipped
    ELSE IF ~MatchesDate(dateStr.s) THEN Skipped
    ELSE IF ElementAt(parts, columnMap.side).k = "undefined" THEN Thrown
    ELSE Pushed(transactionOf(parts, columnMap, symbol.s, dateStr.s,
                    sideOf(StripQuotes(Trim(ElementAt(parts, columnMap.side).s)))))

transactionParts(parts, columnMap) ==
    transactionFields(parts, columnMap,
                      cleanText(ElementAt(parts, columnMap.symbol)),
                      cleanText(ElementAt(parts, columnMap.date)))

\* one iteration of the loop over the data lines
transactionRow(line, columnMap) ==
    IF isTotalLine(line) THEN Skipped
    ELSE transactionParts(SplitUnquoted(line), columnMap)

\* a row that throws ends the loop
RECURSIVE transactionRows_AbortOnThrow(_, _)
transactionRows_AbortOnThrow(rows, columnMap) ==
    IF rows = <<>> \/ transactionRow(Head(rows), columnMap).kind = "thrown"
    THEN <<>>
    ELSE transactionRow(Head(rows), columnMap).pushed
           \o transactionRows_AbortOnThrow(Tail(rows), columnMap)

\* for (let i = 1; i < lines.length; i++) over the data lines
RECURSIVE transactionRows(_, _)
transactionRows(rows, columnMap) ==
    IF rows = <<>> THEN <<>>
    ELSE transactionRow(Head(rows), columnMap).pushed
           \o transactionRows(Tail(rows), columnMap)

transactionTable(lines, columnMap) ==
    IF missingColumns(requiredFields, columnMap) # <<>>
    THEN [transactions |-> <<>>,
          error |-> Item(missingColumnsError(missingColumns(requiredFields, columnMap)))]
    ELSE [transactions |-> transactionRows(Tail(lines), columnMap), error |-> Null]

transactionLines(lines) ==
    IF Len(lines) < 2
    THEN [transactions |-> <<>>, error |-> Item(EmptyCsvError)]
    ELSE transactionTable(lines, columnMapOf(Headers(lines[1])))

parseStockTransactionCSV(text) == transactionLines(Lines(text))

(***************************************************************************)
(* CSV ingestion: parseStockInventoryCSV                                   *)
(***************************************************************************)
\* 股票名稱
KwName == <<"U+80A1", "U+7968", "U+540D", "U+7A31">>

\* 合計庫存數量
KwTotalShares ==
    <<"U+5408", "U+8A08", "U+5EAB", "U+5B58", "U+6578", "U+91CF">>

\* 成本均價
KwAvgCost == <<"U+6210", "U+672C", "U+5747", "U+50F9">>

\* 現價
KwCurrentPrice == <<"U+73FE", "U+50F9">>

\* CSV 缺少必要欄位: 
InventoryMissingPrefix ==
    <<"C", "S", "V", " ", "U+7F3A", "U+5C11", "U+5FC5", "U+8981", "U+6B04",
      "U+4F4D", ":", " ">>

\* , 
InventoryMissingSeparator == <<",", " ">>


inventoryColumnMapOf(headers) ==
    [symbol |-> findColumnIndex(headers, <<KwSymbol>>),
     name |-> findColumnIndex(headers, <<KwName>>),
     shares |-> findColumnIndex(headers, <<KwTotalShares>>),
     avgCost |-> findColumnIndex(headers, <<KwAvgCost>>),
     currentPrice |-> findColumnIndex(headers, <<KwCurrentPrice>>)]

inventoryRequiredFields ==
    <<[key |-> "symbol", name |-> <<"s", "y", "m", "b", "o", "l">>],
      [key |-> "name", name |-> <<"n", "a", "m", "e">>],
      [key |-> "shares", name |-> <<"s", "h", "a", "r", "e", "s">>],
      [key |-> "avgCost", name |-> <<"a", "v", "g", "C", "o", "s", "t">>],
      [key |-> "currentPrice",
       name |-> <<"c", "u", "r", "r", "e", "n", "t", "P", "r", "i", "c", "e">>]>>

inventoryMissingError(missing) ==
    InventoryMissingPrefix \o Join(missingNames(missing), InventoryMissingSeparator)

\* cleaned.substring(0, dotIndex) when the symbol has a dot
untilDot(cleaned) ==
    IF IndexOf(cleaned, ".") # -1 THEN SubSeq(cleaned, 1, IndexOf(cleaned, "."))
    ELSE cleaned

formatSymbol(str) ==
    IF ~Truthy(str) THEN <<>> ELSE untilDot(Trim(StripQuotes(str.s)))

assetOf(parts, columnMap, symbol) ==
    [symbol |-> symbol,
     name |-> cleanText(ElementAt(parts, columnMap.name)),
     shares |-> cleanNumber(ElementAt(parts, columnMap.shares)),
     avgCost |-> cleanNumber(ElementAt(parts, columnMap.avgCost)),
     currentPrice |-> cleanNumber(ElementAt(parts, columnMap.currentPrice))]

\* the body of the try block: nothing in it throws
inventoryFields(parts, columnMap, symbol) ==
    IF symbol = <<>> THEN Skipped ELSE Pushed(assetOf(parts, columnMap, symbol))

inventoryParts(parts, columnMap) ==
    inventoryFields(parts, columnMap, formatSymbol(ElementAt(parts, columnMap.symbol)))

\* one iteration of the loop over the data lines
inventoryRow(line, columnMap) == inventoryParts(SplitUnquoted(line), columnMap)

RECURSIVE inventoryRows(_, _)
inventoryRows(rows, columnMap) ==
    IF rows = <<>> THEN <<>>
    ELSE inventoryRow(Head(rows), columnMap).pushed
           \o inventoryRows(Tail(rows), columnMap)

\* the rows are parsed although a required column is missing
inventoryTable_Partial(lines, columnMap) ==
    IF missingColumns(inventoryRequiredFields, columnMap) # <<>>
    THEN [assets |-> inventoryRows(Tail(lines), columnMap),
          error |-> Item(inventoryMissingError(
                             missingColumns(inventoryRequiredFields, columnMap)))]
    ELSE [assets |-> inventoryRows(Tail(lines), columnMap), error |-> Null]

inventoryTable(lines, columnMap) ==
    IF missingColumns(inventoryRequiredFields, columnMap) # <<>>
    THEN [assets |-> <<>>,
          error |-> Item(inventoryMissingError(
                             missingColumns(inventoryRequiredFields, columnMap)))]
    ELSE [assets |-> inventoryRows(Tail(lines), columnMap), error |-> Null]

inventoryLines(lines) ==
    IF Len(lines) < 2
    THEN [assets |-> <<>>, error |-> Item(EmptyCsvError)]
    ELSE inventoryTable(lines, inventoryColumnMapOf(Headers(lines[1])))

parseStockInventoryCSV(text) == inventoryLines(Lines(text))

(***************************************************************************)
(* Inputs                                                                  *)
(***************************************************************************)
MaxTxs == 2

Sym50 == <<"5", "0">>

Sym0050 == <<"0", "0", "5", "0">>

Symbols == {JsUndefined, JsStr(<<>>), JsStr(Sym50), JsStr(Sym0050)}

SharesValues == {JsUndefined, JsNum(NumOf(0)), JsNum(NumOf(1000)), JsNum(NumOf(-1))}

AvgCostValues == {JsNum(NaN), JsNum(NumOf(20)), JsNum(NumOf(600))}

CurrentPriceValues ==
    {JsUndefined, JsStr(<<"n", "/", "a">>), JsNum(NumOf(0)), JsNum(NumOf(650))}

IsEtfValues == {JsUndefined, JsBool(TRUE), JsBool(FALSE)}

Stocks ==
    [symbol : Symbols, shares : SharesValues, avgCost : AvgCostValues,
     currentPrice : CurrentPriceValues, isEtf : IsEtfValues]

Tx(type, item, note, amount) ==
    [type |-> type, item |-> item, note |-> note, amount |-> NumOf(amount)]

TxPool ==
    { Tx("DIVIDEND", <<"1", "0", "5", "0">>, JsUndefined, 7),
      Tx("DIVIDEND", <<"E", "T", "F">>, JsStr(Sym0050), 5),
      Tx("INCOME", Sym0050, JsUndefined, 3) }

TxLists == UNION { [1..n -> TxPool] : n \in 0..MaxTxs }

MaxHistoryTxs == 1

HistoryTxLists == UNION { [1..n -> TxPool] : n \in 0..MaxHistoryTxs }

\* the numbers the settings form can hold (Number(e.target.value))
FeeDiscountInputs == {JsNum(NumOf(0)), JsNum(Norm(5, -1))}

\* the values a backup file can carry under the fee-discount key
BackupFeeValues ==
    {JsUndefined, JsNum(NumOf(0)), JsNum(Norm(5, -1)), JsStr(<<"a", "b", "c">>)}

Backups ==
    { [key \in StorageKeys |-> IF key = FEE_DISCOUNT THEN v ELSE JsUndefined] :
        v \in BackupFeeValues }

(***************************************************************************)
(* Backup files of Settings.handleFileChange                               *)
(***************************************************************************)
\* a stock transaction, as far as importData reads it
StockTx(id, shares) == [id |-> id, shares |-> shares]

\* an asset, as far as importData reads it; transactions is the array of
\* the old format, or undefined
BackupAsset(id, txs) == [id |-> id, transactions |-> txs]

\* an element of the other collections
Entry(id) == [id |-> id]

\* what a device holds under every key before an import
PopulatedStore ==
    [key \in StorageKeys |->
        CASE key = ASSETS ->
                Item(JSONstringify(JsArray(<<BackupAsset("old", JsUndefined)>>)))
          [] key = STOCK_TRANSACTIONS ->
                Item(JSONstringify(JsArray(<<StockTx("old", 1)>>)))
          [] key = RECURRING_EXECUTED ->
                Item(JSONstringify(JsObject(<<Entry("old")>>)))
          [] key \in CollectionKeys ->
                Item(JSONstringify(JsArray(<<Entry("old")>>)))
          [] key \in StringKeys -> Item(<<"o", "l", "d">>)
          [] key = FEE_DISCOUNT -> Item(<<"0", ".", "2", "8">>)]

\* undefined: the backup does not carry the key
BackupAssets ==
    {JsUndefined, JsArray(<<>>),
     JsArray(<<BackupAsset("a1", JsArray(<<StockTx("t1", 2)>>)),
               BackupAsset("a2", JsUndefined)>>)}

BackupStockTxs ==
    {JsUndefined, JsArray(<<>>), JsArray(<<StockTx("t1", 1), StockTx("t2", 1)>>)}

BackupPresence == {"omitted", "empty", "filled"}

BackupCollection(key, presence) ==
    CASE presence = "omitted" -> JsUndefined
      [] presence = "empty" ->
            IF key = RECURRING_EXECUTED THEN JsObject(<<>>) ELSE JsArray(<<>>)
      [] presence = "filled" ->
            IF key = RECURRING_EXECUTED THEN JsObject(<<Entry("new")>>)
            ELSE JsArray(<<Entry("new")>>)

BackupScalar(key, presence) ==
    CASE presence = "omitted" -> JsUndefined
      [] presence = "empty" ->
            IF key = FEE_DISCOUNT THEN JsNum(NumOf(0)) ELSE JsStr(<<>>)
      [] presence = "filled" ->
            IF key = FEE_DISCOUNT THEN JsNum(Norm(5, -1)) ELSE JsStr(<<"n", "e", "w">>)

FullBackup(backupAssets, stockTxs, collections, scalars) ==
    [key \in StorageKeys |->
        CASE key = ASSETS -> backupAssets
          [] key = STOCK_TRANSACTIONS -> stockTxs
          [] key \in CollectionKeys -> BackupCollection(key, collections)
          [] OTHER -> BackupScalar(key, scalars)]

FullBackups ==
    { FullBackup(backupAssets, stockTxs, collections, scalars) :
        backupAssets \in BackupAssets, stockTxs \in BackupStockTxs,
        collections \in BackupPresence, scalars \in BackupPresence }

\* a text JSON.parse rejects, the text of null, and the texts of the backups
NotJson == [parses |-> FALSE, isObject |-> FALSE, data |-> <<>>]

NullJson == [parses |-> TRUE, isObject |-> FALSE, data |-> <<>>]

BackupJson(data) == [parses |-> TRUE, isObject |-> TRUE, data |-> data]

BackupTexts == {NotJson, NullJson} \cup { BackupJson(data) : data \in FullBackups }

(***************************************************************************)
(* CSV inputs: header lines and data lines of brokerage exports            *)
(***************************************************************************)
MaxCsvRows == 2

\* 成交日期,股票代號,買賣別,成交數量,成交價,應收付帳款
HeaderExample ==
    <<"U+6210", "U+4EA4", "U+65E5", "U+671F", ",", "U+80A1", "U+7968",
      "U+4EE3", "U+865F", ",", "U+8CB7", "U+8CE3", "U+5225", ",", "U+6210",
      "U+4EA4", "U+6578", "U+91CF", ",", "U+6210", "U+4EA4", "U+50F9", ",",
      "U+61C9", "U+6536", "U+4ED8", "U+5E33", "U+6B3E">>

\* 成交日期,股票代號,買賣別,成交數量,成交價,應收付帳款,損益,手續費,交易稅,二代健保補充費
HeaderFull ==
    <<"U+6210", "U+4EA4", "U+65E5", "U+671F", ",", "U+80A1", "U+7968",
      "U+4EE3", "U+865F", ",", "U+8CB7", "U+8CE3", "U+5225", ",", "U+6210",
      "U+4EA4", "U+6578", "U+91CF", ",", "U+6210", "U+4EA4", "U+50F9", ",",
      "U+61C9", "U+6536", "U+4ED8", "U+5E33", "U+6B3E", ",", "U+640D",
      "U+76CA", ",", "U+624B", "U+7E8C", "U+8CBB", ",", "U+4EA4", "U+6613",
      "U+7A05", ",", "U+4E8C", "U+4EE3", "U+5065", "U+4FDD", "U+88DC",
      "U+5145", "U+8CBB">>

\* "成交日期", 股票代號,買賣,股數,成交數量,成交單價,"收付金額"
HeaderVariants ==
    <<"\"", "U+6210", "U+4EA4", "U+65E5", "U+671F", "\"", ",", " ",
      "U+80A1", "U+7968", "U+4EE3", "U+865F", ",", "U+8CB7", "U+8CE3", ",",
      "U+80A1", "U+6578", ",", "U+6210", "U+4EA4", "U+6578", "U+91CF", ",",
      "U+6210", "U+4EA4", "U+55AE", "U+50F9", ",", "\"", "U+6536", "U+4ED8",
      "U+91D1", "U+984D", "\"">>

\* 成交日期,股票代號,買賣別,成交數量,成交價
HeaderNoAmount ==
    <<"U+6210", "U+4EA4", "U+65E5", "U+671F", ",", "U+80A1", "U+7968",
      "U+4EE3", "U+865F", ",", "U+8CB7", "U+8CE3", "U+5225", ",", "U+6210",
      "U+4EA4", "U+6578", "U+91CF", ",", "U+6210", "U+4EA4", "U+50F9">>

\* 成交日期,股票代號
HeaderDateSymbol ==
    <<"U+6210", "U+4EA4", "U+65E5", "U+671F", ",", "U+80A1", "U+7968",
      "U+4EE3", "U+865F">>

\* 股票代號,股票名稱,合計庫存數量,成本均價,現價
HeaderInventory ==
    <<"U+80A1", "U+7968", "U+4EE3", "U+865F", ",", "U+80A1", "U+7968",
      "U+540D", "U+7A31", ",", "U+5408", "U+8A08", "U+5EAB", "U+5B58",
      "U+6578", "U+91CF", ",", "U+6210", "U+672C", "U+5747", "U+50F9", ",",
      "U+73FE", "U+50F9">>

\* 股票代號,股票名稱,合計庫存數量,成本均價
HeaderInventoryNoPrice ==
    <<"U+80A1", "U+7968", "U+4EE3", "U+865F", ",", "U+80A1", "U+7968",
      "U+540D", "U+7A31", ",", "U+5408", "U+8A08", "U+5EAB", "U+5B58",
      "U+6578", "U+91CF", ",", "U+6210", "U+672C", "U+5747", "U+50F9">>

CsvHeaders ==
    {HeaderExample,
     HeaderFull,
     HeaderVariants,
     HeaderNoAmount,
     HeaderDateSymbol,
     HeaderInventory,
     HeaderInventoryNoPrice}

\* 2024/01/15,2330,買進,1000,600,-600020
RowBuy ==
    <<"2", "0", "2", "4", "/", "0", "1", "/", "1", "5", ",", "2", "3", "3",
      "0", ",", "U+8CB7", "U+9032", ",", "1", "0", "0", "0", ",", "6", "0",
      "0", ",", "-", "6", "0", "0", "0", "2", "0">>

\* 2024/01/15,2330
RowNoSide ==
    <<"2", "0", "2", "4", "/", "0", "1", "/", "1", "5", ",", "2", "3", "3",
      "0">>

\* 2024/01/16,"2330",賣出,"1,000",610,"609,000",9000,869,1830,12
RowSellQuoted ==
    <<"2", "0", "2", "4", "/", "0", "1", "/", "1", "6", ",", "\"", "2", "3",
      "3", "0", "\"", ",", "U+8CE3", "U+51FA", ",", "\"", "1", ",", "0",
      "0", "0", "\"", ",", "6", "1", "0", ",", "\"", "6", "0", "9", ",",
      "0", "0", "0", "\"", ",", "9", "0", "0", "0", ",", "8", "6", "9", ",",
      "1", "8", "3", "0", ",", "1", "2">>

\* 2024/01/17,0050,買進,abc,150,-150021,500,21,0,0
RowBuyUnparsable ==
    <<"2", "0", "2", "4", "/", "0", "1", "/", "1", "7", ",", "0", "0", "5",
      "0", ",", "U+8CB7", "U+9032", ",", "a", "b", "c", ",", "1", "5", "0",
      ",", "-", "1", "5", "0", "0", "2", "1", ",", "5", "0", "0", ",", "2",
      "1", ",", "0", ",", "0">>

\* 2024/01/31,小計,買進,2000,600,-1200040
RowSubtotal ==
    <<"2", "0", "2", "4", "/", "0", "1", "/", "3", "1", ",", "U+5C0F",
      "U+8A08", ",", "U+8CB7", "U+9032", ",", "2", "0", "0", "0", ",", "6",
      "0", "0", ",", "-", "1", "2", "0", "0", "0", "4", "0">>

\* 20240131,2330,賣出,1000,600,600000,總計
RowGrandTotal ==
    <<"2", "0", "2", "4", "0", "1", "3", "1", ",", "2", "3", "3", "0", ",",
      "U+8CE3", "U+51FA", ",", "1", "0", "0", "0", ",", "6", "0", "0", ",",
      "6", "0", "0", "0", "0", "0", ",", "U+7E3D", "U+8A08">>

\* ,2330,買進,1000,600,-600020
RowNoDate ==
    <<",", "2", "3", "3", "0", ",", "U+8CB7", "U+9032", ",", "1", "0", "0",
      "0", ",", "6", "0", "0", ",", "-", "6", "0", "0", "0", "2", "0">>

\* 2024/01/15,,買進,1000,600,-600020
RowNoSymbol ==
    <<"2", "0", "2", "4", "/", "0", "1", "/", "1", "5", ",", ",", "U+8CB7",
      "U+9032", ",", "1", "0", "0", "0", ",", "6", "0", "0", ",", "-", "6",
      "0", "0", "0", "2", "0">>

\* 01/15/2024,2330,買進,1000,600,-600020
RowBadDate ==
    <<"0", "1", "/", "1", "5", "/", "2", "0", "2", "4", ",", "2", "3", "3",
      "0", ",", "U+8CB7", "U+9032", ",", "1", "0", "0", "0", ",", "6", "0",
      "0", ",", "-", "6", "0", "0", "0", "2", "0">>

\* 2024/01/15,2330,買進
RowNoNumbers ==
    <<"2", "0", "2", "4", "/", "0", "1", "/", "1", "5", ",", "2", "3", "3",
      "0", ",", "U+8CB7", "U+9032">>

\* 2330,台積電,1000,600,650
RowAsset ==
    <<"2", "3", "3", "0", ",", "U+53F0", "U+7A4D", "U+96FB", ",", "1", "0",
      "0", "0", ",", "6", "0", "0", ",", "6", "5", "0">>

\* "0050.TW","元大台灣50","2,000",150.5,160
RowAssetQuoted ==
    <<"\"", "0", "0", "5", "0", ".", "T", "W", "\"", ",", "\"", "U+5143",
      "U+5927", "U+53F0", "U+7063", "5", "0", "\"", ",", "\"", "2", ",",
      "0", "0", "0", "\"", ",", "1", "5", "0", ".", "5", ",", "1", "6", "0">>

\* 小計,,3000,,
RowAssetSubtotal ==
    <<"U+5C0F", "U+8A08", ",", ",", "3", "0", "0", "0", ",", ",">>

\* ,x,1,1,1
RowAssetNoSymbol == <<",", "x", ",", "1", ",", "1", ",", "1">>

\* 2330
RowAssetSymbolOnly == <<"2", "3", "3", "0">>

\* the data lines a file draws from, in the order they appear in it
CsvRowPool ==
    <<RowBuy,
      RowNoSide,
      RowSellQuoted,
      RowBuyUnparsable,
      RowSubtotal,
      RowGrandTotal,
      RowNoDate,
      RowNoSymbol,
      RowBadDate,
      RowNoNumbers,
      RowAsset,
      RowAssetQuoted,
      RowAssetSubtotal,
      RowAssetNoSymbol,
      RowAssetSymbolOnly>>

\* a header line followed by data lines, one line feed between lines
CsvFile(header, rows) == Join(<<header>> \o rows, <<"\n">>)

\* the choices of at most MaxCsvRows lines of the pool
CsvRowChoices ==
    UNION { { pick \in [1..n -> 1..Len(CsvRowPool)] :
                \A i, j \in 1..n : i < j => pick[i] < pick[j] } : n \in 0..MaxCsvRows }

CsvRowLists == { [i \in 1..Len(pick) |-> CsvRowPool[pick[i]]] : pick \in CsvRowChoices }

\* an empty file
EmptyText == <<>>

\* a file of blank lines
BlankText == <<" ", "\n", "\r", "\n">>

\* the example with CRLF line ends and a blank line before the data
CrLfText ==
    HeaderExample \o <<"\r", "\n", "\r", "\n">> \o RowBuy \o <<"\r", "\n">>

MaxRepeatedRows == 1

\* the files that are parsed more than once
RepeatedCsvTexts ==
    {EmptyText, CrLfText}
        \cup { CsvFile(header, rows) :
                 header \in CsvHeaders,
                 rows \in { list \in CsvRowLists : Len(list) <= MaxRepeatedRows } }

CsvTexts ==
    {EmptyText, BlankText, CrLfText}
        \cup { CsvFile(header, rows) : header \in CsvHeaders, rows \in CsvRowLists }

(***************************************************************************)
(* State machine                                                           *)
(*                                                                         *)
(* stock and transactions are the arguments of every call of a behaviour;  *)
(* result is the latest call (what it returned, and the fee-discount entry *)
(* it read).  Behaviours that start with recording = TRUE also keep a      *)
(* history: prev is the call before the latest, configured the rate the    *)
(* user last saved or imported.                                            *)
(***************************************************************************)
ZeroResult ==
    [totalCost |-> Zero, marketValue |-> Zero, estimatedReturn |-> Zero,
     netProfit |-> Zero, roi |-> ZeroRatio, buyFee |-> Zero,
     sellFee |-> Zero, tax |-> Zero, totalDividends |-> Zero]

NoCall == [called |-> FALSE, read |-> FALSE, stored |-> Null, out |-> ZeroResult]

RateUnset == [state |-> "unset", rate |-> Zero]

RateSet(d) == [state |-> "set", rate |-> d]

RateUnknown == [state |-> "unknown", rate |-> Zero]

\* the rate a saved or imported value configures: a number is a rate, a
\* backup without the key leaves the rate as it was, anything else is no rate
Configures(v, old) ==
    CASE v.k = "number" /\ ~IsNaN(v.n) -> RateSet(v.n)
      [] v.k = "undefined" -> old
      [] OTHER -> RateUnknown

(***************************************************************************)
(* CSV import: the file the user picks and what its handler did            *)
(***************************************************************************)
NoParse == [fn |-> "none", records |-> <<>>, ids |-> <<>>, error |-> Null,
            alert |-> FALSE, imported |-> <<>>]

\* crypto.randomUUID() gives the records of one parse distinct identifiers,
\* any of which a later parse may or may not give again: the k-th record of
\* a parse gets the k-th identifier of a run of identifiers.  ids[k] is the
\* id of records[k]; an asset of the inventory parser has none
UuidRuns == {"a", "b"}

randomUUIDs(run, records) == [k \in 1..Len(records) |-> <<run, k>>]

\* r.onload of handleTransactionFileChange and handleInventoryFileChange:
\* an error is alerted, records are handed to onImport..., and an empty
\* result is alerted
\* what a call returns is joined to what the call before returned
Handled_Accumulating(fn, records, ids, error) ==
    [fn |-> fn, records |-> parsed.records \o records, ids |-> parsed.ids \o ids,
     error |-> error,
     alert |-> error.set \/ records = <<>>,
     imported |-> IF error.set THEN <<>> ELSE records]

Handled(fn, records, ids, error) ==
    [fn |-> fn, records |-> records, ids |-> ids, error |-> error,
     alert |-> error.set \/ records = <<>>,
     imported |-> IF error.set THEN <<>> ELSE records]

handledTransactions(out, run) ==
    Handled("transactions", out.transactions, randomUUIDs(run, out.transactions),
            out.error)

handledInventory(out) == Handled("inventory", out.assets, <<>>, out.error)

\* no backup was imported
NoImport == [called |-> FALSE, json |-> NotJson, returned |-> FALSE,
             changed |-> FALSE]

(***************************************************************************)
(* hooks/useAutoTasks.ts                                                   *)
(***************************************************************************)
FirstYear == 2024

IsLeapYear(y) == (y % 4 = 0 /\ y % 100 # 0) \/ y % 400 = 0

DaysInMonth(y, m) ==
    CASE m = 2 -> IF IsLeapYear(y) THEN 29 ELSE 28
      [] m \in {4, 6, 9, 11} -> 30
      [] OTHER -> 31

Date(y, m, d) == [y |-> y, m |-> m, d |-> d]

NextDate(date) ==
    IF date.d < DaysInMonth(date.y, date.m) THEN Date(date.y, date.m, date.d + 1)
    ELSE IF date.m < 12 THEN Date(date.y, date.m + 1, 1)
    ELSE Date(date.y + 1, 1, 1)

PrevDate(date) ==
    IF date.d > 1 THEN Date(date.y, date.m, date.d - 1)
    ELSE IF date.m > 1 THEN Date(date.y, date.m - 1, DaysInMonth(date.y, date.m - 1))
    ELSE Date(date.y - 1, 12, 31)

\* the time zones of the browser: west of UTC, UTC, east of UTC
West == "west"

Utc == "utc"

East == "east"

TimeZones == {West, Utc, East}

\* today.toISOString() of the local midnight of date: east of UTC the local
\* midnight lies in the UTC day before
toISODate(date, zone) == IF zone = East THEN PrevDate(date) ELSE date

\* today.toISOString().substring(0, 7)
currentMonthKey(date, zone) ==
    <<toISODate(date, zone).y, toISODate(date, zone).m>>

MONTHLY == "MONTHLY"

YEARLY == "YEARLY"

\* monthOfYear 0 stands for an item that has none
RecurringItem(id, frequency, dayOfMonth, monthOfYear) ==
    [id |-> id, frequency |-> frequency, dayOfMonth |-> dayOfMonth,
     monthOfYear |-> monthOfYear]

\* item.monthOfYear || 1
targetMonth(item) == IF item.monthOfYear = 0 THEN 1 ELSE item.monthOfYear

\* Array.prototype.includes
ArrayIncludes(array, element) == \E i \in DOMAIN array : array[i] = element

\* newLog[item.id] || []
itemLogs(log, item) == IF item.id \in DOMAIN log THEN log[item.id] ELSE <<>>

shouldExecute(item, date) ==
    IF item.frequency = MONTHLY THEN date.d >= item.dayOfMonth
    ELSE \/ date.m > targetMonth(item)
         \/ date.m = targetMonth(item) /\ date.d >= item.dayOfMonth

targetDate(item, date) ==
    IF item.frequency = MONTHLY THEN Date(date.y, date.m, item.dayOfMonth)
    ELSE Date(date.y, targetMonth(item), item.dayOfMonth)

\* the item is not returned from before its transaction is pushed
executes(item, log, date, zone) ==
    /\ ~ArrayIncludes(itemLogs(log, item), currentMonthKey(date, zone))
    /\ shouldExecute(item, date)

\* the transaction pushed for an item
autoTransaction(item, date) ==
    [item |-> item.id, date |-> targetDate(item, date), source |-> "MANUAL"]

\* newTransactions and newLog after the forEach over items
RECURSIVE newTransactions(_, _, _, _)
newTransactions(items, log, date, zone) ==
    IF items = <<>> THEN <<>>
    ELSE IF executes(Head(items), log, date, zone)
    THEN <<autoTransaction(Head(items), date)>>
         \o newTransactions(Tail(items),
                [id \in DOMAIN log \cup {Head(items).id} |->
                    IF id = Head(items).id
                    THEN Append(itemLogs(log, Head(items)), currentMonthKey(date, zone))
                    ELSE log[id]],
                date, zone)
    ELSE newTransactions(Tail(items), log, date, zone)

RECURSIVE newLog(_, _, _, _)
newLog(items, log, date, zone) ==
    IF items = <<>> THEN log
    ELSE IF executes(Head(items), log, date, zone)
    THEN newLog(Tail(items),
                [id \in DOMAIN log \cup {Head(items).id} |->
                    IF id = Head(items).id
                    THEN Append(itemLogs(log, Head(items)), currentMonthKey(date, zone))
                    ELSE log[id]],
                date, zone)
    ELSE newLog(Tail(items), log, date, zone)

saveRecurringExecuted(store, data) ==
    [store EXCEPT ![RECURRING_EXECUTED] = Item(JSONstringify(data))]

saveTransactions(store, txs) ==
    [store EXCEPT ![TRANSACTIONS] = Item(JSONstringify(txs))]

\* the recurring items of the user
Monthly(id, dayOfMonth) == RecurringItem(id, MONTHLY, dayOfMonth, 0)

Yearly(id, monthOfYear, dayOfMonth) == RecurringItem(id, YEARLY, dayOfMonth, monthOfYear)

RecurringLists ==
    {<<>>,
     <<Monthly("r1", 1)>>, <<Monthly("r1", 15)>>, <<Monthly("r1", 31)>>,
     <<Yearly("r1", 1, 1)>>, <<Yearly("r1", 0, 15)>>, <<Yearly("r1", 2, 1)>>,
     <<Monthly("r1", 15), Yearly("r2", 1, 15)>>}

\* the months of FirstYear the model walks through
MaxMonths == 2

FirstDay == Date(FirstYear, 1, 1)

LastDay == Date(FirstYear, MaxMonths, DaysInMonth(FirstYear, MaxMonths))

NoDate == Date(0, 0, 0)

AutoIdle ==
    /\ today = FirstDay
    /\ timeZone = Utc
    /\ recurring = <<>>
    /\ recurringExecuted = <<>>
    /\ ledger = <<>>
    /\ toast = 0
    /\ effectRan = NoDate

(***************************************************************************)
(* hooks/useDailySnapshot.ts                                               *)
(***************************************************************************)
STOCK == "STOCK"

CASH == "CASH"

DEBT == "DEBT"

\* an asset: symbol, shares, avgCost, currentPrice and isEtf are JavaScript
\* values, amount is a number
Asset(id, type, symbol, shares, currentPrice, amount) ==
    [id |-> <<id>>, type |-> type, name |-> <<id>>, symbol |-> symbol,
     shares |-> JsNum(NumOf(shares)), avgCost |-> JsNum(NumOf(20)),
     currentPrice |-> JsNum(NumOf(currentPrice)), isEtf |-> JsUndefined,
     amount |-> NumOf(amount), lastUpdated |-> 0]

MaxSnapshots == 365

\* JSON.parse of the text JSON.stringify gave
JSONparse(text) == text[1]

getTransactions(store) ==
    IF store[TRANSACTIONS].set THEN JSONparse(store[TRANSACTIONS].v) ELSE <<>>

getHistory(store) ==
    IF store[HISTORY].set THEN JSONparse(store[HISTORY].v) ELSE <<>>

saveHistory(store, history) ==
    [store EXCEPT ![HISTORY] = Item(JSONstringify(history))]

getStockHistory(store) ==
    IF store[STOCK_HISTORY].set THEN JSONparse(store[STOCK_HISTORY].v) ELSE <<>>

saveStockHistory(store, history) ==
    [store EXCEPT ![STOCK_HISTORY] = Item(JSONstringify(history))]

\* the sum of a.amount over the assets a of currentAssets that pass
RECURSIVE sumAmount(_, _)
sumAmount(currentAssets, debts) ==
    IF currentAssets = <<>> THEN Zero
    ELSE IF (Head(currentAssets).type = DEBT) = debts
    THEN Add(sumAmount(Tail(currentAssets), debts), Head(currentAssets).amount)
    ELSE sumAmount(Tail(currentAssets), debts)

portfolioSnapshot(date, currentAssets) ==
    [date |-> date,
     totalAssets |-> sumAmount(currentAssets, FALSE),
     totalLiabilities |-> sumAmount(currentAssets, TRUE),
     netWorth |-> Sub(sumAmount(currentAssets, FALSE), sumAmount(currentAssets, TRUE))]

\* as pushSnapshot, dropping the snapshot that was pushed
pushSnapshot_DropNewest(filteredHistory, snapshot) ==
    IF Len(filteredHistory) + 1 > MaxSnapshots
    THEN filteredHistory
    ELSE Append(filteredHistory, snapshot)

\* history.filter(h => h.date !== today), push(snapshot), and shift() when
\* more than 365 are left
pushSnapshot(filteredHistory, snapshot) ==
    IF Len(filteredHistory) + 1 > MaxSnapshots
    THEN Tail(Append(filteredHistory, snapshot))
    ELSE Append(filteredHistory, snapshot)

withSnapshot(history, date, snapshot) ==
    pushSnapshot(SelectSeq(history, LAMBDA h : h.date # date), snapshot)

\* the stocks of currentAssets that have a symbol
positionsOf(currentAssets) ==
    SelectSeq(currentAssets, LAMBDA a : a.type = STOCK /\ Truthy(a.symbol))

\* calculateStockPerformance(stock, currentTransactions) of every position
performancesOf(stocks, txs) ==
    [i \in DOMAIN stocks |-> calculateStockPerformance(stocks[i], txs)]

RECURSIVE sumMarketValue(_)
sumMarketValue(performances) ==
    IF performances = <<>> THEN Zero
    ELSE Add(sumMarketValue(Tail(performances)), Head(performances).marketValue)

RECURSIVE sumNetProfit(_)
sumNetProfit(performances) ==
    IF performances = <<>> THEN Zero
    ELSE Add(sumNetProfit(Tail(performances)), Head(performances).netProfit)

snapshotOf(date, stocks, performances) ==
    [date |-> date,
     totalMarketValue |-> sumMarketValue(performances),
     totalUnrealizedPL |-> sumNetProfit(performances),
     positions |-> [i \in DOMAIN stocks |->
                      [symbol |-> stocks[i].symbol,
                       marketValue |-> performances[i].marketValue]]]

stockSnapshot(date, currentAssets, txs) ==
    snapshotOf(date, positionsOf(currentAssets),
               performancesOf(positionsOf(currentAssets), txs))

\* the store after takePortfolioSnapshot(currentAssets) on a date, snapshot
\* being the snapshot of currentAssets
takePortfolioSnapshot(store, date, snapshot) ==
    saveHistory(store, withSnapshot(getHistory(store), date, snapshot))

\* the history takeStockSnapshot(currentAssets, currentTransactions) saves
\* and sets on a date, snapshot being the snapshot of currentAssets
takeStockSnapshot(store, date, snapshot) ==
    withSnapshot(getStockHistory(store), date, snapshot)

\* history.some(h => h.date === today)
hasSnapshot(history, date) == \E i \in DOMAIN history : history[i].date = date

\* the asset lists of the application
Holding(price) == Asset("s1", STOCK, JsStr(Sym50), 1000, price, 1000 * price)

Unnamed == Asset("s2", STOCK, JsUndefined, 1000, 30, 30000)

Loan == Asset("d1", DEBT, JsUndefined, 0, 0, 500)

AssetLists == {<<>>, <<Holding(30)>>, <<Holding(40), Unnamed, Loan>>}

\* the UTC days the model walks through after FirstUtcDate
MaxDays == 2

FirstUtcDate == 1000

\* histories of daily snapshots of a user who held a loan and no stock, the
\* latest of the day before FirstUtcDate
FilledLengths == {0, MaxSnapshots - 1, MaxSnapshots}

FilledHistory(n) ==
    [i \in 1..n |-> portfolioSnapshot(FirstUtcDate - n + i - 1, <<Loan>>)]

FilledStockHistory(n) ==
    [i \in 1..n |-> stockSnapshot(FirstUtcDate - n + i - 1, <<Loan>>, <<>>)]

FilledStore(n) ==
    IF n = 0 THEN [key \in StorageKeys |-> Null]
    ELSE saveStockHistory(saveHistory([key \in StorageKeys |-> Null], FilledHistory(n)),
                          FilledStockHistory(n))

SnapshotIdle ==
    /\ utcDate = FirstUtcDate
    /\ assets = <<>>
    /\ stockHistory = <<>>

(***************************************************************************)
(* App.tsx: toNumericString and handleImportInventory                      *)
(***************************************************************************)
LowerCase ==
    <<"a", "b", "c", "d", "e", "f", "g", "h", "i", "j", "k", "l", "m",
      "n", "o", "p", "q", "r", "s", "t", "u", "v", "w", "x", "y", "z">>

UpperCase ==
    <<"A", "B", "C", "D", "E", "F", "G", "H", "I", "J", "K", "L", "M",
      "N", "O", "P", "Q", "R", "S", "T", "U", "V", "W", "X", "Y", "Z">>

\* String.prototype.toUpperCase
toUpperCase(str) ==
    [i \in DOMAIN str |->
        IF \E k \in DOMAIN LowerCase : LowerCase[k] = str[i]
        THEN UpperCase[CHOOSE k \in DOMAIN LowerCase : LowerCase[k] = str[i]]
        ELSE str[i]]

\* the index of the first character of str at or after i that is no white space
RECURSIVE SkipWhiteSpace(_, _)
SkipWhiteSpace(str, i) ==
    IF i <= Len(str) /\ str[i] \in WhiteSpace THEN SkipWhiteSpace(str, i + 1) ELSE i

\* the index after the sign at i, if there is one
SkipSign(str, i) == IF i <= Len(str) /\ str[i] \in {"+", "-"} THEN i + 1 ELSE i

IsNegativeAt(str, i) == i <= Len(str) /\ str[i] = "-"

\* String(parseInt(str, 10)) where the digits start at i, or the trimmed
\* upper-case string when parseInt gives NaN
numericStringAt(str, sign, i) ==
    IF DigitRun(str, i) = i THEN toUpperCase(Trim(str))
    ELSE (IF IsNegativeAt(str, sign) /\ DigitsValue(str, i, DigitRun(str, i)) # 0
          THEN <<"-">> ELSE <<>>)
         \o NatToString(DigitsValue(str, i, DigitRun(str, i)))

\* toNumericString(s) of a symbol that is a string or undefined
toNumericString(symbol) ==
    IF ~Truthy(symbol) THEN <<>>
    ELSE numericStringAt(symbol.s, SkipWhiteSpace(symbol.s, 1),
                         SkipSign(symbol.s, SkipWhiteSpace(symbol.s, 1)))

getAssets(store) ==
    IF store[ASSETS].set THEN JSONparse(store[ASSETS].v) ELSE <<>>

saveAssets(store, list) == [store EXCEPT ![ASSETS] = Item(JSONstringify(list))]

\* a Map from normalized symbols to assets, as the sequence of its entries
\* in insertion order: Map.set of a key that is there keeps its place
mapHas(map, key) == \E i \in DOMAIN map : map[i].key = key

mapGet(map, key) == map[CHOOSE i \in DOMAIN map : map[i].key = key].value

mapSet(map, key, value) ==
    IF mapHas(map, key)
    THEN [i \in DOMAIN map |->
            IF map[i].key = key THEN [key |-> key, value |-> value] ELSE map[i]]
    ELSE Append(map, [key |-> key, value |-> value])

\* new Map(entries)
RECURSIVE mapOf(_, _)
mapOf(map, entries) ==
    IF entries = <<>> THEN map
    ELSE mapOf(mapSet(map, toNumericString(Head(entries).symbol), Head(entries)),
               Tail(entries))

\* the asset that replaces existing for an imported row
updatedAsset(existing, row) ==
    [existing EXCEPT
        !.name = row.name,
        !.shares = JsNum(row.shares),
        !.avgCost = JsNum(row.avgCost),
        !.currentPrice = JsNum(row.currentPrice),
        !.amount = Mul(NumberOrZero(JsNum(row.shares)),
                       NumberOrZero(JsNum(row.currentPrice))),
        !.lastUpdated = 1]

\* the asset that is created for an imported row; crypto.randomUUID() gives
\* the k-th entry of the map of the run-th import an id no other asset has
newAsset(row, run, k) ==
    [id |-> <<"uuid", run, k>>, type |-> STOCK,
     name |-> IF row.name # <<>> THEN row.name ELSE row.symbol,
     symbol |-> JsStr(row.symbol),
     shares |-> JsNum(row.shares), avgCost |-> JsNum(row.avgCost),
     currentPrice |-> JsNum(row.currentPrice), isEtf |-> JsUndefined,
     amount |-> Mul(row.shares, row.currentPrice), lastUpdated |-> 1]

importedRow(stockMap, row, key, run) ==
    IF key = <<>> THEN stockMap
    ELSE IF mapHas(stockMap, key)
    THEN mapSet(stockMap, key, updatedAsset(mapGet(stockMap, key), row))
    ELSE mapSet(stockMap, key, newAsset(row, run, Len(stockMap) + 1))

\* stockMap after parsedAssets.forEach
RECURSIVE importedRows(_, _, _)
importedRows(stockMap, parsedAssets, run) ==
    IF parsedAssets = <<>> THEN stockMap
    ELSE importedRows(importedRow(stockMap, Head(parsedAssets),
                                  toNumericString(JsStr(Head(parsedAssets).symbol)),
                                  run),
                      Tail(parsedAssets), run)

mapValues(map) == [i \in DOMAIN map |-> map[i].value]

\* finalAssets of handleImportInventory(parsedAssets)
finalAssets(currentAssets, parsedAssets, run) ==
    SelectSeq(currentAssets, LAMBDA a : a.type # STOCK)
    \o mapValues(importedRows(
            mapOf(<<>>, SelectSeq(currentAssets,
                                  LAMBDA a : a.type = STOCK /\ Truthy(a.symbol))),
            parsedAssets, run))

\* newAssetsCount + updatedAssetsCount
importedCount(parsedAssets) ==
    Len(SelectSeq(parsedAssets, LAMBDA row : toNumericString(JsStr(row.symbol)) # <<>>))

\* the rows parseStockInventoryCSV returns
ParsedAsset(symbol, shares) ==
    [symbol |-> symbol, name |-> <<>>, shares |-> NumOf(shares),
     avgCost |-> NumOf(10), currentPrice |-> NumOf(20)]

Sym6208 == <<"6", "2", "0", "8">>

Sym006208 == <<"0", "0", "6", "2", "0", "8">>

Sym00631L == <<"0", "0", "6", "3", "1", "L">>

Sym00631 == <<"0", "0", "6", "3", "1">>

SymAapl == <<"a", "a", "p", "l">>

ParsedAssetPool ==
    <<ParsedAsset(Sym6208, 100), ParsedAsset(Sym006208, 200),
      ParsedAsset(Sym00631L, 300), ParsedAsset(Sym00631, 400),
      ParsedAsset(SymAapl, 500), ParsedAsset(Sym50, 600)>>

\* the rows of a file: one row, or two rows of the pool in its order
ParsedAssetLists ==
    { <<ParsedAssetPool[i]>> : i \in DOMAIN ParsedAssetPool }
        \cup { <<ParsedAssetPool[pair[1]], ParsedAssetPool[pair[2]]>> :
                 pair \in { q \in (DOMAIN ParsedAssetPool) \X (DOMAIN ParsedAssetPool) :
                              q[1] < q[2] } }

\* what the user holds before an import
Etf == Asset("s3", STOCK, JsStr(Sym006208), 1000, 100, 100000)

HeldAssetLists == {<<>>, <<Loan, Holding(30), Unnamed>>, <<Etf, Loan>>}

\* the number of imports the model follows
MaxInventoryImports == 2

NoInventory == [called |-> FALSE, before |-> <<>>, rows |-> <<>>]

InventoryIdle ==
    /\ uuids = 0
    /\ lastInventory = NoInventory

(***************************************************************************)
(* App.refreshData, Settings.handleSaveApiKey and services/gemini.ts       *)
(***************************************************************************)
getRecurring(store) ==
    IF store[RECURRING].set THEN JSONparse(store[RECURRING].v) ELSE <<>>

getRecurringExecuted(store) ==
    IF store[RECURRING_EXECUTED].set THEN JSONparse(store[RECURRING_EXECUTED].v)
    ELSE <<>>

\* localStorage.getItem('ft_api_key') || ''
getApiKey(store) == IF store[API_KEY].set THEN store[API_KEY].v ELSE <<>>

saveApiKey(store, key) == [store EXCEPT ![API_KEY] = Item(key)]

\* the characters [A-Za-z0-9_-]
IsKeyChar(ch) ==
    \/ \E k \in DOMAIN LowerCase : LowerCase[k] = ch \/ UpperCase[k] = ch
    \/ IsDigit(ch)
    \/ ch \in {"_", "-"}

\* apiKey.trim().replace(/[^A-Za-z0-9_-]/g, '')
sanitizedKey(key) == SelectSeq(Trim(key), IsKeyChar)

KeyGood == <<"n", "e", "w">>

KeyBad == <<"o", "l", "d">>

\* the keys Gemini accepts
ValidKeys == {KeyGood}

\* what verifyApiKey(key) resolves to
verifyApiKey(key) == key # <<>> /\ key \in ValidKeys

\* what the user types into the key field
KeyInputs == {<<>>, KeyGood, KeyBad, <<" ", "n", "e", "w", "!">>}

ApiKeys == {KeyGood, KeyBad}

\* the verifications that are awaited at once
MaxPending == 2

NoPending == [key \in ApiKeys |-> 0]

PendingCount == pending[KeyGood] + pending[KeyBad]

statusOf(isValid) == IF isValid THEN "valid" ELSE "invalid"

\* refreshData() up to its await, on the store the caller left
refreshData(store) ==
    /\ assets' = getAssets(store)
    /\ ledger' = getTransactions(store)
    /\ recurring' = getRecurring(store)
    /\ recurringExecuted' = getRecurringExecuted(store)
    /\ stockHistory' = getStockHistory(store)
    /\ apiKey' = getApiKey(store)
    /\ apiKeyStatus' = IF getApiKey(store) # <<>> THEN "verifying" ELSE "unchecked"
    /\ pending' = IF getApiKey(store) # <<>>
                  THEN [pending EXCEPT ![getApiKey(store)] = @ + 1]
                  ELSE pending

\* refreshData can start: the model awaits at most MaxPending verifications
CanRefresh(store) == getApiKey(store) = <<>> \/ PendingCount < MaxPending

\* the application once it is mounted on a store and the key is verified
Mounted ==
    /\ assets = getAssets(localStorage)
    /\ ledger = getTransactions(localStorage)
    /\ recurring = getRecurring(localStorage)
    /\ recurringExecuted = getRecurringExecuted(localStorage)
    /\ stockHistory = getStockHistory(localStorage)
    /\ apiKey = getApiKey(localStorage)
    /\ apiKeyStatus = IF getApiKey(localStorage) = <<>> THEN "unchecked"
                      ELSE statusOf(verifyApiKey(getApiKey(localStorage)))
    /\ pending = NoPending

ApiKeyIdle ==
    /\ apiKey = <<>>
    /\ apiKeyStatus = "unchecked"
    /\ pending = NoPending

(***************************************************************************)
(* hooks/useStockEnrichment.ts: the state of the hook                      *)
(***************************************************************************)
PRICE == "price"

DIVIDEND == "dividend"

NotUpdating == [isUpdating |-> FALSE, current |-> 0, total |-> 0]

\* useState({price: ..., dividend: ...})
IdleStatus == [price |-> NotUpdating, dividend |-> NotUpdating]

NoRun == [finished |-> FALSE]

EnrichIdle ==
    /\ enrichStatus = IdleStatus
    /\ renderedStatus = IdleStatus
    /\ runs = <<>>
    /\ started = 0
    /\ userChanges = 0
    /\ lastRun = NoRun

\* the application state before anything of it is used
AppIdle ==
    /\ lastImport = NoImport
    /\ AutoIdle
    /\ SnapshotIdle
    /\ InventoryIdle
    /\ ApiKeyIdle
    /\ EnrichIdle

\* the calculator and the CSV import before anything of them is used
CalcIdle ==
    /\ stock = [symbol |-> JsUndefined, shares |-> JsUndefined,
                avgCost |-> JsNum(NumOf(20)), currentPrice |-> JsUndefined,
                isEtf |-> JsUndefined]
    /\ transactions = <<>>
    /\ result = NoCall
    /\ recording = FALSE
    /\ prev = NoCall
    /\ configured = RateUnset

CsvIdle ==
    /\ csvText = EmptyText
    /\ parsed = NoParse
    /\ prevParsed = NoParse

Init ==
    /\ localStorage = [key \in StorageKeys |-> Null]
    /\ stock \in Stocks
    /\ transactions \in TxLists
    /\ result = NoCall
    /\ recording = FALSE
    /\ prev = NoCall
    /\ configured = RateUnset
    /\ csvText = EmptyText
    /\ parsed = NoParse
    /\ prevParsed = NoParse
    /\ AppIdle

InitHistory ==
    /\ localStorage = [key \in StorageKeys |-> Null]
    /\ stock \in Stocks
    /\ transactions \in HistoryTxLists
    /\ result = NoCall
    /\ recording = TRUE
    /\ prev = NoCall
    /\ configured = RateUnset
    /\ csvText = EmptyText
    /\ parsed = NoParse
    /\ prevParsed = NoParse
    /\ AppIdle

\* a render calls calculateStockPerformance(stock, transactions)
Calculate ==
    /\ result' = [called |-> TRUE,
                  read |-> ReadsFeeDiscount(stock),
                  stored |-> IF ReadsFeeDiscount(stock)
                             THEN localStorage[FEE_DISCOUNT] ELSE Null,
                  out |-> calculateStockPerformance(stock, transactions)]
    /\ prev' = IF recording THEN result ELSE prev
    /\ UNCHANGED <<localStorage, stock, transactions, recording, configured, csvVars, appVars>>

\* Settings.handleSaveFeeDiscount
SaveFeeDiscount(discount) ==
    /\ localStorage' = saveFeeDiscount(localStorage, discount)
    /\ configured' = IF recording THEN Configures(discount, configured) ELSE configured
    /\ UNCHANGED <<stock, transactions, result, recording, prev, csvVars, appVars>>

\* Settings.handleConfirmImport with a backup that parses
ImportData(data) ==
    /\ localStorage' = importData(localStorage, data)
    /\ configured' = IF recording THEN Configures(data[FEE_DISCOUNT], configured)
                     ELSE configured
    /\ UNCHANGED <<stock, transactions, result, recording, prev, csvVars, appVars>>

\* Settings.handleReset
ClearAllData ==
    /\ localStorage' = clearAllData(localStorage)
    /\ configured' = RateUnset
    /\ UNCHANGED <<stock, transactions, result, recording, prev, csvVars, appVars>>

Next ==
    \/ Calculate
    \/ \E discount \in FeeDiscountInputs : SaveFeeDiscount(discount)
    \/ \E data \in Backups : ImportData(data)
    \/ ClearAllData

Spec == Init /\ [][Next]_vars

SpecHistory == InitHistory /\ [][Next]_vars

InitCsv ==
    /\ localStorage = [key \in StorageKeys |-> Null]
    /\ stock = [symbol |-> JsUndefined, shares |-> JsUndefined,
                avgCost |-> JsNum(NumOf(20)), currentPrice |-> JsUndefined,
                isEtf |-> JsUndefined]
    /\ transactions = <<>>
    /\ result = NoCall
    /\ recording = FALSE
    /\ prev = NoCall
    /\ configured = RateUnset
    /\ csvText \in CsvTexts
    /\ parsed = NoParse
    /\ prevParsed = NoParse
    /\ AppIdle

\* the same, keeping the call before the latest in prevParsed
InitCsvTwice ==
    /\ localStorage = [key \in StorageKeys |-> Null]
    /\ stock = [symbol |-> JsUndefined, shares |-> JsUndefined,
                avgCost |-> JsNum(NumOf(20)), currentPrice |-> JsUndefined,
                isEtf |-> JsUndefined]
    /\ transactions = <<>>
    /\ result = NoCall
    /\ recording = TRUE
    /\ prev = NoCall
    /\ configured = RateUnset
    /\ csvText \in RepeatedCsvTexts
    /\ parsed = NoParse
    /\ prevParsed = NoParse
    /\ AppIdle

\* handleTransactionFileChange, once the file is read
ParseTransactions(run) ==
    /\ parsed' = handledTransactions(parseStockTransactionCSV(csvText), run)
    /\ prevParsed' = IF recording THEN parsed ELSE prevParsed
    /\ UNCHANGED <<csvText, calcVars, appVars>>

\* handleInventoryFileChange, once the file is read
ParseInventory ==
    /\ parsed' = handledInventory(parseStockInventoryCSV(csvText))
    /\ prevParsed' = IF recording THEN parsed ELSE prevParsed
    /\ UNCHANGED <<csvText, calcVars, appVars>>

NextCsv ==
    \/ \E run \in UuidRuns : ParseTransactions(run)
    \/ ParseInventory

SpecCsv == InitCsv /\ [][NextCsv]_vars

SpecCsvTwice == InitCsvTwice /\ [][NextCsv]_vars

(***************************************************************************)
(* Settings.handleConfirmImport                                            *)
(***************************************************************************)
\* importData(jsonData) returns true unless JSON.parse throws or the parsed
\* value, being null, has no properties to read
importReturns(json) == json.parses /\ json.isObject

InitImport ==
    /\ localStorage \in {[key \in StorageKeys |-> Null], PopulatedStore}
    /\ CalcIdle
    /\ CsvIdle
    /\ lastImport = NoImport
    /\ today = FirstDay
    /\ timeZone = Utc
    /\ toast = 0
    /\ effectRan = NoDate
    /\ utcDate = FirstUtcDate
    /\ InventoryIdle
    /\ EnrichIdle
    /\ Mounted

ConfirmImport(json) ==
    /\ importReturns(json) => CanRefresh(importData(localStorage, json.data))
    /\ localStorage' = IF importReturns(json) THEN importData(localStorage, json.data)
                       ELSE localStorage
    /\ lastImport' = [called |-> TRUE, json |-> json, returned |-> importReturns(json),
                      changed |-> localStorage' # localStorage]
    /\ IF importReturns(json) THEN refreshData(localStorage')
       ELSE UNCHANGED <<assets, ledger, recurring, recurringExecuted, stockHistory,
                        apiKeyVars>>
    /\ UNCHANGED restOfRefresh

\* Settings.handleSaveApiKey
SaveApiKey(key) ==
    /\ CanRefresh(saveApiKey(localStorage, sanitizedKey(key)))
    /\ localStorage' = saveApiKey(localStorage, sanitizedKey(key))
    /\ refreshData(localStorage')
    /\ UNCHANGED <<lastImport, restOfRefresh>>

\* Settings.handleReset, confirmed
ResetData ==
    /\ localStorage' = clearAllData(localStorage)
    /\ refreshData(localStorage')
    /\ UNCHANGED <<lastImport, restOfRefresh>>

\* the await of refreshData: verifyApiKey(key) settles
SettleVerification(key) ==
    /\ pending[key] > 0
    /\ pending' = [pending EXCEPT ![key] = @ - 1]
    /\ apiKeyStatus' = statusOf(verifyApiKey(key))
    /\ UNCHANGED <<localStorage, lastImport, apiKey, assets, ledger, recurring,
                   recurringExecuted, stockHistory, restOfRefresh>>

NextImport ==
    \/ \E json \in BackupTexts : ConfirmImport(json)
    \/ \E key \in ApiKeys : SettleVerification(key)

SpecImport == InitImport /\ [][NextImport]_vars

\* backups that carry an API key and nothing else
KeyBackups ==
    { BackupJson([key \in StorageKeys |->
                    IF key = API_KEY THEN JsStr(apiKeyOf) ELSE JsUndefined]) :
        apiKeyOf \in ApiKeys }

InitApiKey ==
    /\ localStorage \in {[key \in StorageKeys |-> Null],
                          saveApiKey([key \in StorageKeys |-> Null], KeyBad)}
    /\ CalcIdle
    /\ CsvIdle
    /\ lastImport = NoImport
    /\ today = FirstDay
    /\ timeZone = Utc
    /\ toast = 0
    /\ effectRan = NoDate
    /\ utcDate = FirstUtcDate
    /\ InventoryIdle
    /\ EnrichIdle
    /\ Mounted

NextApiKey ==
    \/ \E key \in KeyInputs : SaveApiKey(key)
    \/ \E json \in KeyBackups : ConfirmImport(json)
    \/ ResetData
    \/ \E key \in ApiKeys : SettleVerification(key)

SpecApiKey == InitApiKey /\ [][NextApiKey]_vars

(***************************************************************************)
(* useAutoTasks: the effect, the days that pass and the toast timer        *)
(***************************************************************************)
InitAuto ==
    /\ localStorage = [key \in StorageKeys |-> Null]
    /\ CalcIdle
    /\ CsvIdle
    /\ lastImport = NoImport
    /\ SnapshotIdle
    /\ InventoryIdle
    /\ ApiKeyIdle
    /\ EnrichIdle
    /\ today = FirstDay
    /\ timeZone \in TimeZones
    /\ recurring \in RecurringLists
    /\ recurringExecuted = <<>>
    /\ ledger = <<>>
    /\ toast = 0
    /\ effectRan = NoDate

\* one run of the effect of useAutoTasks
effectOutcome(added, log) ==
    /\ recurringExecuted' = log
    /\ ledger' = ledger \o added
    /\ toast' = IF added = <<>> THEN toast ELSE Len(added)
    /\ localStorage' =
          IF added = <<>> THEN localStorage
          ELSE saveTransactions(saveRecurringExecuted(localStorage, log),
                                ledger \o added)

RunEffect ==
    /\ IF recurring = <<>>
       THEN UNCHANGED <<recurringExecuted, ledger, toast, localStorage>>
       ELSE effectOutcome(newTransactions(recurring, recurringExecuted, today, timeZone),
                          newLog(recurring, recurringExecuted, today, timeZone))
    /\ effectRan' = today
    /\ UNCHANGED <<today, timeZone, recurring, restOfAuto>>

\* setTimeout(() => setToast(null), 5000)
ClearToast ==
    /\ toast # 0
    /\ toast' = 0
    /\ UNCHANGED <<localStorage, today, timeZone, recurring, recurringExecuted, ledger,
                   effectRan, restOfAuto>>

\* midnight passes
NextDay ==
    /\ today # LastDay
    /\ today' = NextDate(today)
    /\ UNCHANGED <<localStorage, timeZone, recurring, recurringExecuted, ledger, toast,
                   effectRan, restOfAuto>>

NextAuto ==
    \/ RunEffect
    \/ ClearToast
    \/ NextDay

SpecAuto == InitAuto /\ [][NextAuto]_vars

(***************************************************************************)
(* useDailySnapshot: the effect, the snapshots after an enrichment and the *)
(* days that pass                                                          *)
(***************************************************************************)
InitSnapshot ==
    /\ \E n \in FilledLengths :
          /\ localStorage = FilledStore(n)
          /\ stockHistory = FilledStockHistory(n)
    /\ CalcIdle
    /\ CsvIdle
    /\ lastImport = NoImport
    /\ AutoIdle
    /\ InventoryIdle
    /\ ApiKeyIdle
    /\ EnrichIdle
    /\ utcDate = FirstUtcDate
    /\ assets \in AssetLists

\* the calls of takePortfolioSnapshot and takeStockSnapshot that are made,
\* with the snapshots they compute
taken(store, portfolio, portfolioTaken, stockTaken, stockHistoryTaken) ==
    /\ stockHistory' = IF stockTaken THEN stockHistoryTaken ELSE stockHistory
    /\ localStorage' =
          IF stockTaken
          THEN saveStockHistory(
                   IF portfolioTaken
                   THEN takePortfolioSnapshot(store, utcDate, portfolio)
                   ELSE store,
                   stockHistoryTaken)
          ELSE IF portfolioTaken
          THEN takePortfolioSnapshot(store, utcDate, portfolio)
          ELSE store

\* the effect of useDailySnapshot
SnapshotEffect ==
    /\ assets # <<>>
    /\ taken(localStorage, portfolioSnapshot(utcDate, assets),
             ~hasSnapshot(getHistory(localStorage), utcDate),
             ~hasSnapshot(getStockHistory(localStorage), utcDate),
             takeStockSnapshot(localStorage, utcDate,
                               stockSnapshot(utcDate, assets, transactions)))
    /\ UNCHANGED <<utcDate, assets, restOfSnapshot>>

\* App.handleEnrichmentSuccess(newAssetsState)
EnrichmentSuccess(newAssetsState) ==
    /\ assets' = newAssetsState
    /\ taken(localStorage, portfolioSnapshot(utcDate, newAssetsState), TRUE, TRUE,
             takeStockSnapshot(localStorage, utcDate,
                               stockSnapshot(utcDate, newAssetsState,
                                             getTransactions(localStorage))))
    /\ UNCHANGED <<utcDate, restOfSnapshot>>

\* the UTC day ends
NextUtcDay ==
    /\ utcDate < FirstUtcDate + MaxDays
    /\ utcDate' = utcDate + 1
    /\ UNCHANGED <<localStorage, assets, stockHistory, restOfSnapshot>>

NextSnapshot ==
    \/ SnapshotEffect
    \/ \E newAssetsState \in AssetLists : EnrichmentSuccess(newAssetsState)
    \/ NextUtcDay

SpecSnapshot == InitSnapshot /\ [][NextSnapshot]_vars

(***************************************************************************)
(* App.handleImportInventory                                               *)
(***************************************************************************)
InitInventory ==
    /\ assets \in HeldAssetLists
    /\ localStorage = IF assets = <<>> THEN [key \in StorageKeys |-> Null]
                      ELSE saveAssets([key \in StorageKeys |-> Null], assets)
    /\ CalcIdle
    /\ CsvIdle
    /\ lastImport = NoImport
    /\ AutoIdle
    /\ utcDate = FirstUtcDate
    /\ stockHistory = <<>>
    /\ InventoryIdle
    /\ ApiKeyIdle
    /\ EnrichIdle

\* finalAssets being the assets handleImportInventory computes
importedInventory(list, count) ==
    /\ assets' = list
    /\ localStorage' = saveAssets(localStorage, list)
    /\ toast' = count

ImportInventory(parsedAssets) ==
    /\ uuids < MaxInventoryImports
    /\ importedInventory(finalAssets(getAssets(localStorage), parsedAssets, uuids + 1),
                         importedCount(parsedAssets))
    /\ uuids' = uuids + 1
    /\ lastInventory' = [called |-> TRUE, before |-> getAssets(localStorage),
                         rows |-> parsedAssets]
    /\ UNCHANGED restOfInventory

\* setTimeout(() => setToast(null), 5000)
ClearInventoryToast ==
    /\ toast # 0
    /\ toast' = 0
    /\ UNCHANGED <<localStorage, assets, inventoryVars, restOfInventory>>

NextInventory ==
    \/ \E parsedAssets \in ParsedAssetLists : ImportInventory(parsedAssets)
    \/ ClearInventoryToast

SpecInventory == InitInventory /\ [][NextInventory]_vars

TypeOK ==
    /\ DOMAIN localStorage = StorageKeys
    /\ stock \in Stocks
    /\ transactions \in TxLists
    /\ result.called \in BOOLEAN
    /\ recording \in BOOLEAN
    /\ prev.called \in BOOLEAN
    /\ configured.state \in {"unset", "set", "unknown"}

(***************************************************************************)
(* Properties                                                              *)
(***************************************************************************)
Shares == NumberOrZero(stock.shares)

AvgCost == NumberOrZero(stock.avgCost)

CurrentPrice == NumberOrZero(stock.currentPrice)

\* a >= b (false when either is NaN)
Ge(a, b) == ~IsNaN(a) /\ ~IsNaN(b) /\ ~Lt(a, b)

\* the integer a finite whole number stands for
ToInt(a) == a.m * Pow10(a.x)

RECURSIVE SumAt(_, _)
SumAt(txs, S) ==
    IF S = {} THEN 0
    ELSE LET i == CHOOSE j \in S : TRUE
         IN  ToInt(txs[i].amount) + SumAt(txs, S \ {i})

HasSymbol == stock.symbol.k = "string" /\ stock.symbol.s # <<>>

\* the transactions of txs that are dividends whose item or note contains sym
DividendIndices(txs, sym) ==
    { i \in 1..Len(txs) :
        /\ txs[i].type = "DIVIDEND"
        /\ \/ Includes(txs[i].item, sym)
           \/ txs[i].note.k = "string" /\ Includes(txs[i].note.s, sym) }

\* the dividends attributed to the position: none without a symbol
AttributedDividends ==
    IF HasSymbol
    THEN NumOf(SumAt(transactions, DividendIndices(transactions, stock.symbol.s)))
    ELSE Zero

\* C1: a position whose shares or avgCost coerce to 0 gets totalCost,
\* marketValue, estimatedReturn, netProfit, roi, buyFee, sellFee and tax all 0,
\* and totalDividends is still the sum of the dividends matched to its symbol
C1_ZeroPosition ==
    (result.called /\ (Shares = Zero \/ AvgCost = Zero)) =>
        /\ result.out.totalCost = Zero
        /\ result.out.marketValue = Zero
        /\ result.out.estimatedReturn = Zero
        /\ result.out.netProfit = Zero
        /\ result.out.roi = ZeroRatio
        /\ result.out.buyFee = Zero
        /\ result.out.sellFee = Zero
        /\ result.out.tax = Zero
        /\ result.out.totalDividends = AttributedDividends

\* a position with shares but no cost basis, holding matched dividends
C1_Witness ==
    /\ result.called
    /\ Shares # Zero
    /\ AvgCost = Zero
    /\ result.out.totalCost = Zero
    /\ result.out.totalDividends # Zero

\* C2: both fees are at least the minimum fee 20, for every price, share
\* count and stored fee discount
C2_FeeAtLeastMin ==
    (result.called /\ result.read) =>
        /\ Ge(result.out.buyFee, minFee)
        /\ Ge(result.out.sellFee, minFee)

IsExample ==
    /\ stock.shares = JsNum(NumOf(1000))
    /\ stock.avgCost = JsNum(NumOf(600))
    /\ stock.currentPrice = JsNum(NumOf(650))
    /\ stock.isEtf = JsBool(FALSE)

\* C4: shares 1000, avgCost 600, currentPrice 650, isEtf false and the default
\* fee discount 0.28 give buyFee 239, totalCost 600239, marketValue 650000,
\* sellFee 259, tax 1950, estimatedReturn 647791, netProfit 47552 and
\* roi = 47552 / 600239 * 100
C4_Example ==
    (result.called /\ IsExample /\ result.stored = Null) =>
        /\ result.out.buyFee = NumOf(239)
        /\ result.out.totalCost = NumOf(600239)
        /\ result.out.marketValue = NumOf(650000)
        /\ result.out.sellFee = NumOf(259)
        /\ result.out.tax = NumOf(1950)
        /\ result.out.estimatedReturn = NumOf(647791)
        /\ result.out.netProfit = NumOf(47552)
        /\ result.out.roi = Ratio(47552 * 100, 600239)

C4_Witness == result.called /\ IsExample /\ result.stored = Null

\* the rate C5 names
ClaimedTaxRate ==
    IF stock.isEtf = JsBool(TRUE) THEN EtfTaxRate
    ELSE IF stock.isEtf = JsBool(FALSE) THEN StockTaxRate
    ELSE IF stock.symbol.k = "string" /\ Len(stock.symbol.s) >= 2
            /\ stock.symbol.s[1] = "0" /\ stock.symbol.s[2] = "0"
         THEN EtfTaxRate
    ELSE StockTaxRate

\* C5: tax = floor(marketValue * rate) where an explicit isEtf alone decides
\* the rate (true 0.001, false 0.003) and, without one, the rate is 0.001 for a
\* symbol that starts with "00" and 0.003 otherwise
C5_TaxRate ==
    (result.called /\ result.read) =>
        result.out.tax = Floor(Mul(result.out.marketValue, ClaimedTaxRate))

\* an explicit isEtf = false on a symbol that starts with "00"
C5_Witness ==
    /\ result.called
    /\ result.read
    /\ stock.isEtf = JsBool(FALSE)
    /\ stock.symbol = JsStr(Sym0050)
    /\ result.out.tax = NumOf(1950)

\* C6: roi is 0 whenever the returned totalCost is 0, whatever netProfit is,
\* and roi is never the outcome of a division by zero
C6_RoiZero ==
    result.called =>
        /\ result.out.totalCost = Zero => result.out.roi = ZeroRatio
        /\ result.out.roi.c = "fin" => result.out.roi.d # 0

\* a position past the guard whose cost and fee cancel, with a loss
C6_Witness ==
    /\ result.called
    /\ result.read
    /\ result.out.totalCost = Zero
    /\ result.out.netProfit # Zero

\* C7: with shares > 0 and avgCost > 0 and a currentPrice that is absent,
\* non-numeric or 0: marketValue = 0, tax = 0, sellFee = 20,
\* estimatedReturn = -sellFee and netProfit = -totalCost - sellFee
C7_NoPrice ==
    (result.called /\ Gt(Shares, Zero) /\ Gt(AvgCost, Zero) /\ CurrentPrice = Zero) =>
        /\ result.out.marketValue = Zero
        /\ result.out.tax = Zero
        /\ result.out.sellFee = minFee
        /\ result.out.estimatedReturn = Neg(result.out.sellFee)
        /\ result.out.netProfit =
               Sub(Neg(result.out.totalCost), result.out.sellFee)

\* the orderings of a list
Orderings(n) == { p \in [1..n -> 1..n] : \A i, j \in 1..n : p[i] = p[j] => i = j }

Reordered(txs, p) == [i \in 1..Len(txs) |-> txs[p[i]]]

C9_AllFinite ==
    result.called =>
        /\ IsFinite(result.out.totalCost)
        /\ IsFinite(result.out.marketValue)
        /\ IsFinite(result.out.estimatedReturn)
        /\ IsFinite(result.out.netProfit)
        /\ result.out.roi.c = "fin"
        /\ IsFinite(result.out.buyFee)
        /\ IsFinite(result.out.sellFee)
        /\ IsFinite(result.out.tax)
        /\ IsFinite(result.out.totalDividends)

\* the rate C10 names: the one last saved or imported, 0.28 when none is set
ClaimedRate ==
    IF configured.state = "set" THEN configured.rate ELSE DefaultFeeDiscount

\* C10: a calculation applies the rate last saved or imported (0 included),
\* and 0.28 when no rate is set
C10_RateApplied ==
    [][(Calculate /\ ReadsFeeDiscount(stock) /\ configured.state # "unknown") =>
          /\ result'.out.buyFee = calculateFee(AvgCost, Shares, ClaimedRate)
          /\ result'.out.sellFee = calculateFee(CurrentPrice, Shares, ClaimedRate)]_vars

(***************************************************************************)
(* Properties of the CSV parsers                                           *)
(***************************************************************************)
TransactionsParsed == parsed.fn = "transactions"

InventoryParsed == parsed.fn = "inventory"

NonEmptyCount(lines) ==
    Cardinality({i \in 1..Len(lines) : Trim(lines[i]) # <<>>})

\* the number of lines of the file that are not empty once trimmed
NonEmptyLineCount == NonEmptyCount(Split(csvText, "\n"))

HeaderCellsOf(lines) == IF lines = <<>> THEN <<>> ELSE Headers(lines[1])

\* the column names of the header line, none when the file has no line
HeaderCells == HeaderCellsOf(Lines(csvText))

DataLinesOf(lines) == IF lines = <<>> THEN <<>> ELSE Tail(lines)

\* the lines after the header line
DataLines == DataLinesOf(Lines(csvText))

NoHeaderContains(headers, keywords) ==
    \A i \in 1..Len(headers), k \in 1..Len(keywords) :
        ~Includes(headers[i], keywords[k])

RequiredKeys == {"date", "symbol", "side", "shares", "price", "amount"}

RequiredKeywords ==
    [date |-> <<KwDate>>,
     symbol |-> <<KwSymbol>>,
     side |-> <<KwSide, KwSideShort>>,
     shares |-> <<KwShares, KwSharesShort, KwSharesTraded>>,
     price |-> <<KwPrice, KwUnitPrice, KwPriceFull>>,
     amount |-> <<KwAmount, KwAmountPaid, KwAmountIncurred>>]

CanonicalName ==
    [date |-> KwDate, symbol |-> KwSymbol, side |-> KwSide, shares |-> KwShares,
     price |-> KwPrice, amount |-> KwAmount]

MissingKeysOf(headers) ==
    {key \in RequiredKeys : NoHeaderContains(headers, RequiredKeywords[key])}

\* the required fields of a transaction that no header names
MissingKeys == MissingKeysOf(HeaderCells)

NamesEveryMissingField ==
    /\ parsed.records = <<>>
    /\ parsed.error.set
    /\ \A key \in MissingKeys : Includes(parsed.error.v, CanonicalName[key])

\* C11 (as stated): parseStockTransactionCSV on a CSV whose header lacks a
\* required column returns no transaction and an error that names every
\* missing field by its canonical name.
C11_MissingColumn ==
    (TransactionsParsed /\ MissingKeys # {}) => NamesEveryMissingField

\* C11 (amended): the same, for a CSV of at least two non-empty lines; a CSV
\* of fewer lines gets the empty-file error, which names no field.
C11_MissingColumnWithRows ==
    (TransactionsParsed /\ NonEmptyLineCount >= 2 /\ MissingKeys # {})
        => NamesEveryMissingField

C11_Witness ==
    /\ TransactionsParsed
    /\ parsed.error.set
    /\ NonEmptyLineCount >= 2
    /\ Cardinality(MissingKeys) >= 2

ExampleCsv == CsvFile(HeaderExample, <<RowBuy>>)

\* C12: the header 成交日期,股票代號,買賣別,成交數量,成交價,應收付帳款 with the
\* single row 2024/01/15,2330,買進,1000,600,-600020 parses without error to
\* exactly one record: BUY, symbol 2330, 1000 shares, price 600, amount
\* -600020.
C12_Example ==
    (TransactionsParsed /\ csvText = ExampleCsv) =>
        /\ parsed.error = Null
        /\ Len(parsed.records) = 1
        /\ parsed.records[1].side = "BUY"
        /\ parsed.records[1].symbol = <<"2", "3", "3", "0">>
        /\ parsed.records[1].shares = NumOf(1000)
        /\ parsed.records[1].price = NumOf(600)
        /\ parsed.records[1].amount = NumOf(-600020)

C12_Witness == TransactionsParsed /\ csvText = ExampleCsv /\ parsed.records # <<>>

InventoryKeys == {"symbol", "name", "shares", "avgCost", "currentPrice"}

InventoryKeywords ==
    [symbol |-> <<KwSymbol>>, name |-> <<KwName>>, shares |-> <<KwTotalShares>>,
     avgCost |-> <<KwAvgCost>>, currentPrice |-> <<KwCurrentPrice>>]

RequiredColumnNotFoundIn(headers) ==
    IF TransactionsParsed
    THEN \E key \in RequiredKeys : NoHeaderContains(headers, RequiredKeywords[key])
    ELSE \E key \in InventoryKeys : NoHeaderContains(headers, InventoryKeywords[key])

\* no header names some required field of the parser of the latest call
RequiredColumnNotFound == RequiredColumnNotFoundIn(HeaderCells)

\* C13: each parser returns either a non-empty error with no record, or no
\* error with a list of records; the error is returned exactly when fewer
\* than 2 non-empty trimmed lines remain or a required column is not found.
C13_ErrorOrRecords ==
    (TransactionsParsed \/ InventoryParsed) =>
        /\ parsed.error.set => (parsed.error.v # <<>> /\ parsed.records = <<>>)
        /\ parsed.error.set <=> (NonEmptyLineCount < 2 \/ RequiredColumnNotFound)

C13_Witness ==
    /\ InventoryParsed
    /\ parsed.error.set
    /\ NonEmptyLineCount >= 2
    /\ DataLines # <<>>

CellIn(parts, index) ==
    IF index + 1 \in 1..Len(parts) THEN StripQuotes(Trim(parts[index + 1])) ELSE <<>>

\* the text of the cell of a data line in a column, empty when it has none
CellOf(line, index) == CellIn(SplitUnquoted(line), index)

HasCell(line, index) == index + 1 \in 1..Len(SplitUnquoted(line))

\* the columns of the transaction fields in the header of the file
TransactionColumns == columnMapOf(HeaderCells)

IsMarkedTotal(line) == Includes(line, KwSubtotal) \/ Includes(line, KwGrandTotal)

\* a data line the claim lets through: not a subtotal or total line, symbol
\* and date not empty, the date of the YYYY/MM/DD-like pattern, and well
\* formed, which is to have a cell in the side column
IsAcceptedRow(line, columns) ==
    /\ ~IsMarkedTotal(line)
    /\ CellOf(line, columns.symbol) # <<>>
    /\ CellOf(line, columns.date) # <<>>
    /\ MatchesDate(CellOf(line, columns.date))
    /\ HasCell(line, columns.side)

AcceptedRowsOf(lines, columns) ==
    SelectSeq(lines, LAMBDA line : IsAcceptedRow(line, columns))

\* the accepted data lines of the file
AcceptedRows == AcceptedRowsOf(DataLines, TransactionColumns)

RecordsAreRows(records, rows, columns) ==
    /\ Len(records) = Len(rows)
    /\ \A k \in 1..Len(rows) :
          /\ k <= Len(records)
          /\ records[k].symbol = CellOf(rows[k], columns.symbol)
          /\ records[k].date = ReplaceChar(CellOf(rows[k], columns.date), "/", "-")

\* C14: the transactions hold no record of a line that contains 小計 or 總計,
\* of a line whose symbol or date is empty, or of a line whose date does not
\* match the pattern; every other well-formed line gives exactly one record:
\* the records are those of the accepted lines, one each, in their order.
C14_AcceptedRows ==
    (TransactionsParsed /\ ~parsed.error.set) =>
        RecordsAreRows(parsed.records, AcceptedRows, TransactionColumns)

IsSkippedSubtotal(line, columns) ==
    /\ Includes(line, KwSubtotal)
    /\ MatchesDate(CellOf(line, columns.date))
    /\ CellOf(line, columns.symbol) # <<>>
    /\ HasCell(line, columns.side)

C14_Witness ==
    /\ TransactionsParsed
    /\ ~parsed.error.set
    /\ parsed.records # <<>>
    /\ AcceptedRowsOf(DataLines, TransactionColumns) # <<>>
    /\ SelectSeq(DataLines, LAMBDA line : IsSkippedSubtotal(line, TransactionColumns))
           # <<>>

\* the columns of the inventory fields in the header of the file
InventoryColumns == inventoryColumnMapOf(HeaderCells)

\* the assets of the data lines that hold neither 小計 nor 總計
AssetsOfUnmarkedLines ==
    inventoryRows(SelectSeq(DataLines, LAMBDA line : ~IsMarkedTotal(line)),
                  InventoryColumns)

\* C15: parseStockInventoryCSV skips a data row that contains 小計 or 總計,
\* so that the assets are those of the other rows.
C15_InventorySkipsTotals ==
    (InventoryParsed /\ ~parsed.error.set) => parsed.records = AssetsOfUnmarkedLines

IsKeywordOf(header, keywords) ==
    \E k \in 1..Len(keywords) : Includes(header, keywords[k])

\* the lowest column whose name contains any of the keywords, -1 without one
LowestColumn(headers, keywords) ==
    IF \E i \in 1..Len(headers) : IsKeywordOf(headers[i], keywords)
    THEN (CHOOSE i \in 1..Len(headers) :
            /\ IsKeywordOf(headers[i], keywords)
            /\ \A j \in 1..(i - 1) : ~IsKeywordOf(headers[j], keywords)) - 1
    ELSE -1

SomeHeaderContains(headers, keyword) ==
    \E i \in 1..Len(headers) : Includes(headers[i], keyword)

\* the lowest column whose name contains the keyword
LowestColumnOf(headers, keyword) ==
    (CHOOSE i \in 1..Len(headers) :
        /\ Includes(headers[i], keyword)
        /\ \A j \in 1..(i - 1) : ~Includes(headers[j], keyword)) - 1

\* the column of the earliest keyword of the list that any header contains
EarliestKeywordColumn(headers, keywords) ==
    IF \E k \in 1..Len(keywords) : SomeHeaderContains(headers, keywords[k])
    THEN LowestColumnOf(headers,
             keywords[CHOOSE k \in 1..Len(keywords) :
                         /\ SomeHeaderContains(headers, keywords[k])
                         /\ \A l \in 1..(k - 1) :
                                ~SomeHeaderContains(headers, keywords[l])])
    ELSE -1

CleanedNumber(number) == IF IsNaN(number) THEN Zero ELSE number

\* the number a cell holds once quotes and commas are stripped, 0 when that
\* is not a number
NumberIn(cell) ==
    CleanedNumber(parseFloat(SelectSeq(cell, LAMBDA c : c \notin {Quote, Comma})))

SharesReadFrom(records, rows, column) ==
    \A k \in 1..Len(records) :
        k <= Len(rows) /\ records[k].shares = NumberIn(CellOf(rows[k], column))

LowestColumnsChosen(headers, columns, inventoryColumns) ==
    /\ TransactionsParsed =>
          \A key \in RequiredKeys :
              columns[key] = LowestColumn(headers, RequiredKeywords[key])
    /\ InventoryParsed =>
          \A key \in InventoryKeys :
              inventoryColumns[key] = LowestColumn(headers, InventoryKeywords[key])

\* C16 (as stated): the column chosen for a field is the lowest column whose
\* name contains any keyword of the field, and the records read it.
C16_FirstColumnWins ==
    /\ LowestColumnsChosen(HeaderCells, TransactionColumns, InventoryColumns)
    /\ (TransactionsParsed /\ ~parsed.error.set) =>
          SharesReadFrom(parsed.records, AcceptedRows,
                         LowestColumn(HeaderCells, RequiredKeywords.shares))

EarliestKeywordsChosen(headers, columns, inventoryColumns) ==
    /\ TransactionsParsed =>
          \A key \in RequiredKeys :
              columns[key] = EarliestKeywordColumn(headers, RequiredKeywords[key])
    /\ InventoryParsed =>
          \A key \in InventoryKeys :
              inventoryColumns[key]
                  = EarliestKeywordColumn(headers, InventoryKeywords[key])

\* C16 (amended): the keywords of a field are tried in their order; the
\* first keyword that some header contains chooses the column, the lowest
\* column that contains that keyword, and the records read it.
C16_FirstKeywordWins ==
    /\ EarliestKeywordsChosen(HeaderCells, TransactionColumns, InventoryColumns)
    /\ (TransactionsParsed /\ ~parsed.error.set) =>
          SharesReadFrom(parsed.records, AcceptedRows,
                         EarliestKeywordColumn(HeaderCells, RequiredKeywords.shares))

TwoSharesColumns(headers) ==
    \E i, j \in 1..Len(headers) :
        /\ i < j
        /\ Includes(headers[i], KwSharesShort)
        /\ Includes(headers[j], KwShares)

C16_Witness ==
    /\ TransactionsParsed
    /\ parsed.records # <<>>
    /\ TwoSharesColumns(HeaderCells)

\* the lines without the i-th
WithoutLine(lines, i) ==
    [j \in 1..(Len(lines) - 1) |-> IF j < i THEN lines[j] ELSE lines[j + 1]]

\* what the parser of the latest call returns for a text
RecordsOf(text) ==
    IF TransactionsParsed THEN parseStockTransactionCSV(text).transactions
    ELSE parseStockInventoryCSV(text).assets

\* the row has too few fields: no cell in the column of some required field
LacksRequiredField(line, columns, inventoryColumns) ==
    IF TransactionsParsed
    THEN \E key \in RequiredKeys : ~HasCell(line, columns[key])
    ELSE \E key \in InventoryKeys : ~HasCell(line, inventoryColumns[key])

\* the row raises an exception in the parser: a transaction row that passes
\* the symbol and date tests and has no cell in the side column
FailsToParse(line, columns) ==
    /\ TransactionsParsed
    /\ ~IsMarkedTotal(line)
    /\ CellOf(line, columns.symbol) # <<>>
    /\ MatchesDate(CellOf(line, columns.date))
    /\ ~HasCell(line, columns.side)

HeaderIsComplete == NonEmptyLineCount >= 2 /\ ~RequiredColumnNotFound

ShortRowsRemoved(header, lines, columns, inventoryColumns) ==
    \A i \in 1..Len(lines) :
        LacksRequiredField(lines[i], columns, inventoryColumns) =>
            /\ parsed.error = Null
            /\ parsed.records = RecordsOf(CsvFile(header, WithoutLine(lines, i)))

ThrowingRowsRemoved(header, lines, columns) ==
    \A i \in 1..Len(lines) :
        FailsToParse(lines[i], columns) =>
            /\ parsed.error = Null
            /\ parsed.records = RecordsOf(CsvFile(header, WithoutLine(lines, i)))

ThrowsBeforeAccepted(lines, columns) ==
    \E i, j \in 1..Len(lines) :
        i < j /\ FailsToParse(lines[i], columns) /\ IsAcceptedRow(lines[j], columns)

NumberAt(line, index) == IF index = -1 THEN Zero ELSE NumberIn(CellOf(line, index))

ProfitOnlyForSell(records, rows, columns) ==
    \A k \in 1..Len(records) :
        records[k].realizedProfit =
            IF records[k].side = "SELL"
            THEN JsNum(NumberAt(rows[k], columns.realizedProfit))
            ELSE JsUndefined

\* C18: a record carries realizedProfit only for a SELL row, where it is the
\* value of the 損益 column of the row; a BUY record has none.
C18_RealizedProfitOnlyForSell ==
    (TransactionsParsed /\ ~parsed.error.set) =>
        ProfitOnlyForSell(parsed.records, AcceptedRows, TransactionColumns)

\* 二代健保補充費
KwLevy ==
    <<"U+4E8C", "U+4EE3", "U+5065", "U+4FDD", "U+88DC", "U+5145", "U+8CBB">>

FeesAreSumOfThree(records, rows, columns, levyColumn) ==
    \A k \in 1..Len(records) :
        records[k].fees = Add(Add(NumberAt(rows[k], columns.fee),
                                  NumberAt(rows[k], columns.tax)),
                              NumberAt(rows[k], levyColumn))

\* C19: fees is the sum of the commission (手續費), the transaction tax
\* (交易稅) and the supplementary health levy (二代健保補充費) of the row, each
\* 0 when its column is absent or its cell is not a number.
C19_FeesSumOfThree ==
    (TransactionsParsed /\ ~parsed.error.set) =>
        FeesAreSumOfThree(parsed.records, AcceptedRows, TransactionColumns,
                          LowestColumn(HeaderCells, <<KwLevy>>))

\* the fields of a line: commas separate, except between quotes
QuotedFields(line) ==
    SplitAt(line, {p \in 1..Len(line) :
                     /\ line[p] = Comma
                     /\ Cardinality({q \in 1..(p - 1) : line[q] = Quote}) % 2 = 0})

NumberInField(fields, index) ==
    IF index + 1 \in 1..Len(fields) THEN NumberIn(fields[index + 1]) ELSE Zero

\* the number in a field of a line, 0 when the line has no such field
NumberOfField(line, index) == NumberInField(QuotedFields(line), index)

HasSymbolField(line, column) ==
    formatSymbol(ElementAt(QuotedFields(line), column)) # <<>>

\* the data lines that give an asset: those with a symbol
AssetRows ==
    SelectSeq(DataLines, LAMBDA line : HasSymbolField(line, InventoryColumns.symbol))

TransactionNumbers(records, rows, columns, isFull) ==
    /\ Len(records) = Len(rows)
    /\ \A k \in 1..Len(records) :
          /\ records[k].shares = NumberOfField(rows[k], columns.shares)
          /\ records[k].price = NumberOfField(rows[k], columns.price)
          /\ records[k].amount = NumberOfField(rows[k], columns.amount)
          /\ (isFull /\ rows[k] = RowSellQuoted)
                 => /\ records[k].shares = NumOf(1000)
                    /\ records[k].amount = NumOf(609000)
          /\ (isFull /\ rows[k] = RowBuyUnparsable) => records[k].shares = Zero

AssetNumbers(records, rows, columns) ==
    /\ Len(records) = Len(rows)
    /\ \A k \in 1..Len(records) :
          /\ records[k].shares = NumberOfField(rows[k], columns.shares)
          /\ records[k].avgCost = NumberOfField(rows[k], columns.avgCost)
          /\ records[k].currentPrice = NumberOfField(rows[k], columns.currentPrice)

\* C20: a quoted field with commas inside is one field; the numbers are read
\* with quotes and commas stripped, so that "1,000" is 1000, and a number
\* that is missing or not a number is 0 while the row is still emitted.
C20_QuotedNumbers ==
    /\ (TransactionsParsed /\ ~parsed.error.set) =>
          TransactionNumbers(parsed.records, AcceptedRows, TransactionColumns,
                             HeaderCells = Headers(HeaderFull))
    /\ (InventoryParsed /\ ~parsed.error.set) =>
          AssetNumbers(parsed.records, AssetRows, InventoryColumns)

BothRowsAccepted(rows) ==
    /\ \E k \in 1..Len(rows) : rows[k] = RowSellQuoted
    /\ \E k \in 1..Len(rows) : rows[k] = RowBuyUnparsable

C20_Witness ==
    /\ TransactionsParsed
    /\ ~parsed.error.set
    /\ HeaderCells = Headers(HeaderFull)
    /\ BothRowsAccepted(AcceptedRows)

\* the latest two calls are calls of the same parser, on the same text
ParsedTwice == parsed.fn # "none" /\ prevParsed.fn = parsed.fn

Restored(json) == importData(clearAllData(localStorage), json.data)

\* C22: after importData returned true every persisted collection equals the
\* backup's content and nothing of the previous content remains, also when
\* the backup holds an empty collection or omits a key.
C22_ImportOverwrites ==
    (lastImport.called /\ lastImport.returned) =>
        \A key \in StorageKeys : localStorage[key] = Restored(lastImport.json)[key]

\* importData returns false and changes nothing when the text does not parse
C22_InvalidChangesNothing ==
    (lastImport.called /\ ~lastImport.json.parses) =>
        ~lastImport.returned /\ ~lastImport.changed

C22_InvalidWitness == lastImport.called /\ ~lastImport.json.parses

\* the auto-generated transactions of an item in the ledger
AutoTransactionsOf(id) == SelectSeq(ledger, LAMBDA tx : tx.item = id)

\* the positions of recurring that hold an item of the frequency
ItemsOf(frequency) == { i \in DOMAIN recurring : recurring[i].frequency = frequency }

\* C23: a YEARLY recurring item is auto-executed at most once per calendar
\* year: at most one auto-generated transaction of a year exists for it.
C23_YearlyOncePerYear ==
    \A i \in ItemsOf(YEARLY) :
        \A y \in {FirstYear} :
            Len(SelectSeq(AutoTransactionsOf(recurring[i].id),
                          LAMBDA tx : tx.date.y = y)) <= 1

\* C24: no two auto-generated transactions of a MONTHLY item carry the same
\* target date.
C24_MonthlyOncePerMonth ==
    \A i \in ItemsOf(MONTHLY) :
        \A j, k \in DOMAIN AutoTransactionsOf(recurring[i].id) :
            AutoTransactionsOf(recurring[i].id)[j].date
                = AutoTransactionsOf(recurring[i].id)[k].date => j = k

\* where the browser is not east of UTC a MONTHLY item has at most one
\* transaction per target date
C24_MonthlyOncePerMonthNotEast == timeZone # East => C24_MonthlyOncePerMonth

\* once the effect ran on a day, a further run on that day adds nothing
C24_FurtherRunAddsNothing ==
    effectRan = today =>
        newTransactions(recurring, recurringExecuted, today, timeZone) = <<>>

C24_RanWitness == effectRan = today /\ ledger # <<>> /\ ItemsOf(MONTHLY) # {}

C23_YearlyOncePerYearInUtc == timeZone = Utc => C23_YearlyOncePerYear

\* the dates of the snapshots of a history, in the order of the history
DatesOf(history) == [i \in DOMAIN history |-> history[i].date]

OnePerDate(history) ==
    \A i, j \in DOMAIN history : history[i].date = history[j].date => i = j

\* each history holds at most one snapshot per date and at most 365
C28_OnePerDateAtMost365 ==
    /\ OnePerDate(getHistory(localStorage))
    /\ OnePerDate(getStockHistory(localStorage))
    /\ Len(getHistory(localStorage)) <= MaxSnapshots
    /\ Len(getStockHistory(localStorage)) <= MaxSnapshots

\* the history after a call on a date: the snapshots of the other dates in
\* their order, without the first when they are 365, and then the new one
Replaced(history, date, snapshot) ==
    IF Len(SelectSeq(history, LAMBDA h : h.date # date)) = MaxSnapshots
    THEN Append(Tail(SelectSeq(history, LAMBDA h : h.date # date)), snapshot)
    ELSE Append(SelectSeq(history, LAMBDA h : h.date # date), snapshot)

\* the first snapshot of a history is its oldest, the next its second
\* oldest, and so on
OldestFirst(history) ==
    \A i \in DOMAIN history : i > 1 => history[i - 1].date < history[i].date

\* a call on a date that already has a snapshot replaces it, and when the
\* limit is exceeded the oldest snapshot is the one dropped
C28_ReplacesAndDropsOldest ==
    [][\A newAssetsState \in AssetLists :
          EnrichmentSuccess(newAssetsState) =>
              /\ getHistory(localStorage')
                    = Replaced(getHistory(localStorage), utcDate,
                               portfolioSnapshot(utcDate, newAssetsState))
              /\ getStockHistory(localStorage')
                    = Replaced(getStockHistory(localStorage), utcDate,
                               stockHistory'[Len(stockHistory')])
              /\ stockHistory'[Len(stockHistory')].date = utcDate
              /\ stockHistory' = getStockHistory(localStorage')
              /\ OldestFirst(getHistory(localStorage))
              /\ OldestFirst(getStockHistory(localStorage))]_vars

\* C28: each history holds at most one snapshot per date and at most 365
\* snapshots; a call on a date that already has a snapshot replaces it, and
\* when the limit is exceeded the oldest snapshot is the one dropped.
C28_Snapshots == []C28_OnePerDateAtMost365 /\ C28_ReplacesAndDropsOldest

\* histories of 365 snapshots that lost their two oldest, with a snapshot of
\* today taken from the assets of an enrichment
C28_Witness ==
    /\ Len(getHistory(localStorage)) = MaxSnapshots
    /\ Len(getStockHistory(localStorage)) = MaxSnapshots
    /\ getHistory(localStorage)[1].date > FirstUtcDate - MaxSnapshots + 1
    /\ utcDate > FirstUtcDate
    /\ hasSnapshot(getHistory(localStorage), utcDate)
    /\ hasSnapshot(getHistory(localStorage), utcDate - 1)
    /\ assets = <<Holding(40), Unnamed, Loan>>
    /\ getHistory(localStorage)[MaxSnapshots] = portfolioSnapshot(utcDate, assets)

\* the stocks of a list of assets that carry the ticker symbol
StocksOf(list, symbol) ==
    SelectSeq(list, LAMBDA a : a.type = STOCK /\ a.symbol = JsStr(symbol))

\* the last row of the import that names the ticker symbol
LastRowOf(rows, symbol) ==
    rows[CHOOSE i \in DOMAIN rows :
            /\ rows[i].symbol = symbol
            /\ \A j \in DOMAIN rows : rows[j].symbol = symbol => j <= i]

\* every ticker symbol of the import has one stock asset of its own, which
\* holds what the last row of that symbol says
RowsKeptApart(after, rows) ==
    \A i \in DOMAIN rows :
        /\ Len(StocksOf(after, rows[i].symbol)) = 1
        /\ StocksOf(after, rows[i].symbol)[1].shares
              = JsNum(LastRowOf(rows, rows[i].symbol).shares)

\* a row of a symbol that a stock carried updates that stock
SameSymbolUpdated(before, after, rows) ==
    \A i \in DOMAIN rows :
        StocksOf(before, rows[i].symbol) # <<>> =>
            \E k \in DOMAIN after : after[k].id = StocksOf(before, rows[i].symbol)[1].id

\* every non-stock asset and every stock the import does not name is there
\* as it was
OthersUnchanged(before, after, rows) ==
    \A k \in DOMAIN before :
        (before[k].type # STOCK
            \/ \A i \in DOMAIN rows : before[k].symbol # JsStr(rows[i].symbol)) =>
            \E j \in DOMAIN after : after[j] = before[k]

\* C29: handleImportInventory never merges positions of different ticker
\* symbols: rows whose symbols differ update or create different stock
\* assets, a row whose symbol equals an existing stock's symbol updates that
\* stock, and every non-stock asset and every stock not named in the import
\* is left unchanged.
C29_NeverMerges ==
    lastInventory.called =>
        /\ RowsKeptApart(getAssets(localStorage), lastInventory.rows)
        /\ SameSymbolUpdated(lastInventory.before, getAssets(localStorage),
                             lastInventory.rows)
        /\ OthersUnchanged(lastInventory.before, getAssets(localStorage),
                           lastInventory.rows)

\* the same without the rows whose symbol, read as a number, is the number
\* of another symbol of the import or of the stocks held, and without the
\* stocks that have no symbol
NumberOf(symbol) == toNumericString(JsStr(symbol))

Unambiguous(before, rows) ==
    /\ \A i, j \in DOMAIN rows :
          NumberOf(rows[i].symbol) = NumberOf(rows[j].symbol)
              => rows[i].symbol = rows[j].symbol
    /\ \A i \in DOMAIN rows : \A k \in DOMAIN before :
          (before[k].type = STOCK /\ Truthy(before[k].symbol)
              /\ NumberOf(rows[i].symbol) = toNumericString(before[k].symbol))
              => before[k].symbol = JsStr(rows[i].symbol)
    /\ \A k \in DOMAIN before : before[k].type = STOCK => Truthy(before[k].symbol)

C29_UnambiguousKeptApart ==
    (lastInventory.called /\ Unambiguous(lastInventory.before, lastInventory.rows)) =>
        /\ RowsKeptApart(getAssets(localStorage), lastInventory.rows)
        /\ SameSymbolUpdated(lastInventory.before, getAssets(localStorage),
                             lastInventory.rows)
        /\ OthersUnchanged(lastInventory.before, getAssets(localStorage),
                           lastInventory.rows)

\* the status that describes the key in storage
StatusOfStoredKey ==
    IF getApiKey(localStorage) = <<>> THEN "unchecked"
    ELSE statusOf(verifyApiKey(getApiKey(localStorage)))

\* C30: once every pending key verification has settled, apiKeyStatus
\* describes the key currently in storage.
C30_StatusDescribesStoredKey ==
    PendingCount = 0 => apiKeyStatus = StatusOfStoredKey

\* once every pending verification has settled the status is not verifying
C30_NotVerifying == PendingCount = 0 => apiKeyStatus # "verifying"

C30_SettledWitness ==
    /\ PendingCount = 0
    /\ apiKeyStatus = "valid"
    /\ getApiKey(localStorage) = KeyGood

(***************************************************************************)
(* hooks/useStockEnrichment.ts: enrichData, updatePrices, updateDividends  *)
(* and the asset handlers of App that run beside it                        *)
(***************************************************************************)
\* Number of parallel requests
BATCH_SIZE == 3

\* Date.now() of a session that is shorter than STALE_THRESHOLD
Now == 1

\* {...a, ...b}
Spread(a, b) ==
    [f \in DOMAIN a \cup DOMAIN b |-> IF f \in DOMAIN b THEN b[f] ELSE a[f]]

\* what enrichFn(stock) resolves to: null, or the fields it found.  Both
\* enrichStockBasicInfo and enrichStockDividendInfo catch every error.
NoInfo == [found |-> FALSE, info |-> <<>>]

FoundName == <<"U+53F0", "U+7A4D">>

priceInfo == [name |-> FoundName, currentPrice |-> JsNum(NumOf(50))]

dividendInfo ==
    [dividendPerShare |-> JsNum(NumOf(2)), dividendFrequency |-> JsStr(<<"Q">>),
     exDate |-> JsUndefined]

\* the stock whose page the search may fail to find
Delisted == <<"s2">>

EnrichOutcomes(type, stockToUpdate) ==
    {[found |-> TRUE, info |-> IF type = PRICE THEN priceInfo ELSE dividendInfo]}
        \cup IF stockToUpdate.id = Delisted THEN {NoInfo} ELSE {}

\* currentAssets.findIndex(a => a.id === stock.id), 0 for -1
assetIndexOf(list, id) ==
    IF \E i \in DOMAIN list : list[i].id = id
    THEN CHOOSE i \in DOMAIN list :
            /\ list[i].id = id
            /\ \A j \in DOMAIN list : list[j].id = id => i <= j
    ELSE 0

\* lines 45-49: the asset with the fields of info
enrichedAsset(type, existingAsset, info) ==
    IF type = PRICE /\ Truthy(info.currentPrice)
    THEN [Spread(existingAsset, info) EXCEPT
            !.lastUpdated = Now,
            !.amount = Mul(NumberOrZero(existingAsset.shares),
                           NumberOrZero(info.currentPrice))]
    ELSE [Spread(existingAsset, info) EXCEPT !.lastUpdated = Now]

\* enrichData once setEnrichStatus, setToast and getAssets are done
newRun(type, stocksToUpdate, currentAssets) ==
    [type |-> type, stocksToUpdate |-> stocksToUpdate, currentAssets |-> currentAssets,
     i |-> 0, inFlight |-> {}, processedCount |-> 0,
     processed |-> [k \in DOMAIN stocksToUpdate |-> 0],
     disturbed |-> FALSE, active |-> TRUE]

\* stocksToUpdate.slice(i, i + BATCH_SIZE), as the indices of its stocks
batchAt(run) ==
    {k \in DOMAIN run.stocksToUpdate : run.i < k /\ k <= run.i + BATCH_SIZE}

requestedOf(run) == {k \in batchAt(run) : Truthy(run.stocksToUpdate[k].symbol)}

\* the for loop up to its next await that is not settled yet: a stock
\* without a symbol is processed without a request
RECURSIVE advance(_)
advance(run) ==
    IF run.inFlight # {} THEN run
    ELSE IF run.i >= Len(run.stocksToUpdate) THEN [run EXCEPT !.active = FALSE]
    ELSE advance([run EXCEPT
                    !.i = @ + BATCH_SIZE,
                    !.inFlight = requestedOf(run),
                    !.processedCount = @ + Cardinality(batchAt(run) \ requestedOf(run)),
                    !.processed = [k \in DOMAIN @ |->
                                     IF k \in batchAt(run) \ requestedOf(run)
                                     THEN @[k] + 1 ELSE @[k]]])

currentAssetsWith(run, k, outcome, assetIndex) ==
    IF assetIndex # 0 /\ outcome.found
    THEN [run.currentAssets EXCEPT
            ![assetIndex] = enrichedAsset(run.type, @, outcome.info)]
    ELSE run.currentAssets

\* the callback of batch.map after await enrichFn(stock), and the loop after it
settledRun(run, k, outcome) ==
    advance([run EXCEPT
               !.currentAssets =
                   currentAssetsWith(run, k, outcome,
                       assetIndexOf(run.currentAssets, run.stocksToUpdate[k].id)),
               !.inFlight = @ \ {k},
               !.processedCount = @ + 1,
               !.processed[k] = @ + 1])

isStale(asset) ==
    \/ asset.name = <<>>
    \/ JsStr(asset.name) = asset.symbol
    \/ ~Truthy(asset.currentPrice)
    \/ asset.lastUpdated = 0

AllStocks == <<>>

\* storage.getAssets().filter(a => a.type === AssetType.STOCK)
inventoryOf(store) == SelectSeq(getAssets(store), LAMBDA asset : asset.type = STOCK)

\* getStocksToUpdate(idsToEnrich); AllStocks stands for null
getStocksToUpdate(store, idsToEnrich) ==
    IF idsToEnrich # AllStocks
    THEN SelectSeq(inventoryOf(store),
                   LAMBDA asset : ArrayIncludes(idsToEnrich, asset.id))
    ELSE IF SelectSeq(inventoryOf(store), isStale) # <<>>
    THEN SelectSeq(inventoryOf(store), isStale)
    ELSE inventoryOf(store)

isEnriching(status) == status.price.isUpdating \/ status.dividend.isUpdating

ActiveRuns == {r \in DOMAIN runs : runs[r].active}

\* the requests that are awaited, of every run
InFlight == UNION {{<<r, k>> : k \in runs[r].inFlight} : r \in DOMAIN runs}

\* a run that ended, as the hook leaves it
Ended == [active |-> FALSE, inFlight |-> {}]

\* the other runs once the stored assets are written behind their back
disturbedRuns(others) ==
    [r \in DOMAIN others |->
        IF others[r].active THEN [others[r] EXCEPT !.disturbed = TRUE] ELSE others[r]]

idsOf(list) == [i \in DOMAIN list |-> list[i].id]

\* enrichData from a point where it goes on to its next await or, with the
\* loop done, to lines 65-70: saveAssets, onSuccess (App.handleEnrichmentSuccess),
\* setToast and setEnrichStatus
Continue(r, run, others, startedToast) ==
    IF run.active
    THEN /\ runs' = [others EXCEPT ![r] = run]
         /\ enrichStatus' =
               [enrichStatus EXCEPT ![run.type] =
                   [isUpdating |-> TRUE, current |-> run.processedCount,
                    total |-> Len(run.stocksToUpdate)]]
         /\ toast' = startedToast
         /\ UNCHANGED <<localStorage, assets, stockHistory, lastRun>>
    ELSE /\ runs' = [disturbedRuns(others) EXCEPT ![r] = Ended]
         /\ enrichStatus' = [enrichStatus EXCEPT ![run.type] = NotUpdating]
         /\ toast' = Len(run.stocksToUpdate)
         /\ assets' = run.currentAssets
         /\ taken(saveAssets(localStorage, run.currentAssets),
                  portfolioSnapshot(utcDate, run.currentAssets), TRUE, TRUE,
                  takeStockSnapshot(localStorage, utcDate,
                                    stockSnapshot(utcDate, run.currentAssets,
                                                  getTransactions(localStorage))))
         /\ lastRun' = [finished |-> TRUE, type |-> run.type,
                        ids |-> idsOf(run.stocksToUpdate),
                        processed |-> run.processed,
                        disturbed |-> run.disturbed,
                        before |-> getAssets(localStorage),
                        stateBefore |-> assets,
                        after |-> getAssets(localStorage'),
                        stateAfter |-> assets',
                        isUpdating |-> enrichStatus'[run.type].isUpdating]

\* the runs the model starts
MaxRuns == 2

\* updatePrices / updateDividends with the enrichStatus of the last render
StartRun(type, idsToEnrich) ==
    /\ started < MaxRuns
    /\ ~isEnriching(renderedStatus)
    /\ getStocksToUpdate(localStorage, idsToEnrich) # <<>>
    /\ started' = started + 1
    /\ Continue(started + 1,
                advance(newRun(type, getStocksToUpdate(localStorage, idsToEnrich),
                               getAssets(localStorage))),
                Append(runs, Ended),
                Len(getStocksToUpdate(localStorage, idsToEnrich)))
    /\ UNCHANGED <<renderedStatus, userChanges, restOfEnrich>>

UpdatePrices(idsToEnrich) == StartRun(PRICE, idsToEnrich)

UpdateDividends(idsToEnrich) == StartRun(DIVIDEND, idsToEnrich)

\* a request of a run settles
SettleRequest(r, k, found) ==
    /\ r \in DOMAIN runs
    /\ k \in runs[r].inFlight
    /\ \E outcome \in EnrichOutcomes(runs[r].type, runs[r].stocksToUpdate[k]) :
          /\ outcome.found = found
          /\ Continue(r, settledRun(runs[r], k, outcome), runs, toast)
    /\ UNCHANGED <<renderedStatus, started, userChanges, restOfEnrich>>

\* React renders App with the enrichStatus that was set
Render ==
    /\ renderedStatus # enrichStatus
    /\ renderedStatus' = enrichStatus
    /\ UNCHANGED <<localStorage, assets, stockHistory, toast, enrichStatus, runs,
                   started, userChanges, lastRun, restOfEnrich>>

\* setTimeout(() => setToast(null), 3000)
ClearEnrichToast ==
    /\ toast # 0
    /\ toast' = 0
    /\ UNCHANGED <<localStorage, assets, stockHistory, enrichVars, restOfEnrich>>

\* the changes the user makes
MaxUserChanges == 1

\* setAssets(prev => { ...; storage.saveAssets(updated); return updated })
userChange(updated) ==
    /\ userChanges < MaxUserChanges
    /\ userChanges' = userChanges + 1
    /\ assets' = updated
    /\ localStorage' = saveAssets(localStorage, updated)
    /\ runs' = disturbedRuns(runs)
    /\ UNCHANGED <<stockHistory, toast, enrichStatus, renderedStatus, started, lastRun,
                   restOfEnrich>>

AddAsset(asset) ==
    /\ \A i \in DOMAIN assets : assets[i].id # asset.id
    /\ userChange(Append(assets, asset))

UpdateAsset(asset) ==
    /\ \E i \in DOMAIN assets : assets[i].id = asset.id /\ assets[i] # asset
    /\ userChange([i \in DOMAIN assets |->
                     IF assets[i].id = asset.id THEN asset ELSE assets[i]])

DeleteAsset(id) ==
    /\ \E i \in DOMAIN assets : assets[i].id = id
    /\ userChange(SelectSeq(assets, LAMBDA asset : asset.id # id))

Sym2330 == <<"2", "3", "3", "0">>

Listed(id) == Asset(id, STOCK, JsStr(Sym2330), 1000, 30, 30000)

Unlisted == Asset("s4", STOCK, JsUndefined, 1000, 30, 30000)

\* three stocks fill a batch; the second batch holds a stock without symbol
EnrichPortfolio == <<Listed("s1"), Listed("s2"), Listed("s3"), Unlisted, Listed("s5"), Loan>>

Bought == Asset("s6", STOCK, JsStr(Sym50), 10, 0, 0)

\* the form of the edit dialog saved with other shares
Edited == [Listed("s1") EXCEPT !.shares = JsNum(NumOf(2000)), !.amount = NumOf(60000)]

InitEnrich ==
    /\ assets = EnrichPortfolio
    /\ localStorage = saveAssets([key \in StorageKeys |-> Null], EnrichPortfolio)
    /\ stockHistory = <<>>
    /\ utcDate = FirstUtcDate
    /\ CalcIdle
    /\ CsvIdle
    /\ lastImport = NoImport
    /\ today = FirstDay
    /\ timeZone = Utc
    /\ recurring = <<>>
    /\ recurringExecuted = <<>>
    /\ ledger = <<>>
    /\ toast = 0
    /\ effectRan = NoDate
    /\ InventoryIdle
    /\ ApiKeyIdle
    /\ EnrichIdle

NextEnrich ==
    \/ \E idsToEnrich \in {AllStocks, <<<<"s1">>>>} : UpdatePrices(idsToEnrich)
    \/ UpdateDividends(<<<<"s5">>>>)
    \/ \E r \in 1..MaxRuns, k \in DOMAIN EnrichPortfolio, found \in BOOLEAN :
          SettleRequest(r, k, found)
    \/ Render
    \/ ClearEnrichToast
    \/ AddAsset(Bought)
    \/ UpdateAsset(Edited)
    \/ DeleteAsset(<<"s2">>)

SpecEnrich == InitEnrich /\ [][NextEnrich]_vars

\* the fields a run may write: name, currentPrice, amount, the dividend data
\* and lastUpdated
EnrichedFields ==
    {"name", "currentPrice", "amount", "dividendPerShare", "dividendFrequency",
     "exDate", "lastUpdated"}

sameButEnriched(a, b) ==
    \A f \in (DOMAIN a \cup DOMAIN b) \ EnrichedFields :
        f \in DOMAIN a /\ f \in DOMAIN b /\ a[f] = b[f]

\* after differs from before in the enriched fields of the stocks of ids only
onlyEnriched(before, after, ids) ==
    /\ Len(before) = Len(after)
    /\ \A i \in DOMAIN before :
          IF ArrayIncludes(ids, before[i].id)
          THEN sameButEnriched(before[i], after[i])
          ELSE before[i] = after[i]

\* C25: what the user persisted while a run was in progress survives the run:
\* the final saveAssets and onSuccess of a run change, in storage and in the
\* application state, only the enriched fields of the stocks of the run.
C25_UserChangesSurvive ==
    lastRun.finished =>
        /\ onlyEnriched(lastRun.before, lastRun.after, lastRun.ids)
        /\ onlyEnriched(lastRun.stateBefore, lastRun.stateAfter, lastRun.ids)

\* a run during which nobody else saved assets changes the enriched fields of
\* its stocks only
C25_UndisturbedRunKeeps ==
    (lastRun.finished /\ ~lastRun.disturbed) =>
        /\ onlyEnriched(lastRun.before, lastRun.after, lastRun.ids)
        /\ onlyEnriched(lastRun.stateBefore, lastRun.stateAfter, lastRun.ids)

C25_UndisturbedWitness ==
    /\ lastRun.finished
    /\ ~lastRun.disturbed
    /\ lastRun.after # lastRun.before
    /\ userChanges > 0

oneBatch(run) ==
    /\ Cardinality(run.inFlight) <= BATCH_SIZE
    /\ \A k \in DOMAIN run.stocksToUpdate :
          /\ k \in run.inFlight => run.i - BATCH_SIZE < k /\ k <= run.i
          /\ k <= run.i - BATCH_SIZE => run.processed[k] = 1
          /\ k > run.i => run.processed[k] = 0
          /\ k \in run.inFlight => run.processed[k] = 0

\* when a run ends every stock of stocksToUpdate was processed exactly once
\* and isUpdating is false
endsProcessed ==
    lastRun.finished =>
        /\ \A k \in DOMAIN lastRun.processed : lastRun.processed[k] = 1
        /\ ~lastRun.isUpdating

C27_EachRunBatches ==
    /\ \A r \in ActiveRuns : oneBatch(runs[r])
    /\ endsProcessed

\* a run of two batches ended although the request for one stock found nothing
C27_EachRunWitness ==
    /\ lastRun.finished
    /\ Len(lastRun.ids) = 5
    /\ lastRun.after[1].lastUpdated = Now
    /\ lastRun.after[2].lastUpdated = 0

====
